---- MODULE Spec2Model ----
(***************************************************************************)
(* Model of the reclass-doc Resolver (src/unnamed/part_004, lines 1-698):  *)
(* parameter merging (mergeParams), token conversion (parseTokenParams),   *)
(* class resolution with the class cache and the inverted dependency tree  *)
(* (resolve, resolveClass), and invalidation (invalidate,                  *)
(* invalidateModified).                                                    *)
(*                                                                         *)
(* JavaScript values are modelled by records of one shape, so that a       *)
(* parameter whose declared `type` and actual `value` disagree (the type   *)
(* is never reassigned by mergeParams) can be represented:                 *)
(*   kind = "string" : value is a primitive string, held in str            *)
(*   kind = "array"  : value is an Array, elements in seq; string-keyed    *)
(*                     properties set on the array object are in map       *)
(*   kind = "object" : value is a plain object, entries (in property       *)
(*                     enumeration order) in map                           *)
(* The compiled module runs in strict mode (TypeScript emits "use strict"  *)
(* for a file with import/export), so creating a property on a primitive   *)
(* string throws a TypeError.  Map keys of the modelled documents are      *)
(* never array indices or names of built-in properties.                    *)
(***************************************************************************)
EXTENDS Integers, Sequences, FiniteSets, TLC

VARIABLES
    files,           \* the reclass directory: class id -> backing file
    clock,           \* file-system time in milliseconds
    edits,           \* number of file changes made so far
    cache,           \* Resolver.cache: class id -> resolved class
    dependencyTree,  \* Resolver.dependencyTree: class id -> dependant ids
    ret,             \* the last call into the Resolver and its outcome, until
                     \* a file changes
    returned,        \* what the last resolveNode call returned: <<>> or
                     \* <<the class>>
    index,           \* Inventory.index.dirs: the inventory classes indexed
                     \* for the classes and for the nodes directory
    mTarget,         \* mergeParams harness: the target parameter
    mSource,         \* mergeParams harness: the last source merged
    mBefore,         \* mergeParams harness: the target before that merge
    mErr,            \* mergeParams harness: what the last merge threw
    mCount,          \* mergeParams harness: merges applied so far
    watchLock,       \* ReclassDoc.watchLock
    timers,          \* callbacks of setTimeout(..., 1) not yet run
    notifications,   \* fs.watch callbacks queued on the event loop
    pc,              \* where the event loop is: "idle", or inside build()
                     \* called by watchTrigger: "loading", "rendering"
    built,           \* the number of file changes the last build has read
    builds,          \* builds started by watchTrigger
    frames           \* the frames of the Resolver call in progress, the
                     \* innermost last; <<>> between top-level calls

vars == <<files, clock, edits, cache, dependencyTree, ret, returned, index,
          mTarget, mSource, mBefore, mErr, mCount,
          watchLock, timers, notifications, pc, built, builds, frames>>

watchVars == <<watchLock, timers, notifications, pc, built, builds>>
resolverVars == <<files, clock, edits, cache, dependencyTree, ret, returned, index>>
mergeVars == <<mTarget, mSource, mBefore, mErr, mCount>>

----------------------------------------------------------------------------
(* Bounds of the model *)

\* number of mergeParams calls applied in a row by the merge harness
MaxMerges == 2

\* number of changes made to the files of the reclass directory
MaxEdits == 2

\* Resolver.depthLimit, a public field (32 unless the caller sets it), scaled
\* down so that chains of classes of the model exceed it
depthLimit == 2

\* turns of the substitution loop of parseInterpolation on one leaf after
\* which the loop is taken not to end
MaxPasses == 4

\* number of changes made to the files of the watched directory
MaxChanges == 3
MaxStack == 6

----------------------------------------------------------------------------
(* Errors thrown *)

NoError == "none"
\* `lastSource.mergeType = ...` with lastSource undefined (source.sources empty)
TypeErrorLastSource == "TypeError: Cannot set property 'mergeType' of undefined"
\* `target.value[i] = ...` with target.value a primitive string (strict mode)
TypeErrorCreateProperty == "TypeError: Cannot create property on string"
\* `target.value.push(...)` with target.value not an Array
TypeErrorPush == "TypeError: target.value.push is not a function"

----------------------------------------------------------------------------
(* Tokens, as YamlTokenizer.parse builds them *)

TokValue(s, comment) ==
    [type |-> "VALUE", kind |-> "string", str |-> s, seq |-> <<>>,
     map |-> <<>>, comment |-> comment]

TokSequence(elems, comment) ==
    [type |-> "SEQUENCE", kind |-> "array", str |-> "", seq |-> elems,
     map |-> <<>>, comment |-> comment]

TokMap(entries, comment) ==
    [type |-> "MAP", kind |-> "object", str |-> "", seq |-> <<>>,
     map |-> entries, comment |-> comment]

Entry(k, v) == [key |-> k, val |-> v]

----------------------------------------------------------------------------
(* Util.clone *)

RECURSIVE clone(_)
\* Deep copy by structural type.  An Array is copied index by index, so
\* string-keyed properties set on the array object are not copied.
clone(p) ==
    [p EXCEPT
        !.seq = [i \in 1..Len(p.seq) |-> clone(p.seq[i])],
        !.map = IF p.kind = "array" THEN <<>>
                ELSE [i \in 1..Len(p.map) |->
                        Entry(p.map[i].key, clone(p.map[i].val))]]

----------------------------------------------------------------------------
(* Resolver.parseTokenParams *)

RECURSIVE parseTokenParams(_, _, _)
parseTokenParams(token, className, classType) ==
    LET source == [className |-> className,
                   classType |-> classType,
                   type      |-> token.type,
                   mergeType |-> "ORIGIN",
                   value     |-> CASE token.type = "MAP" -> "[map]"
                                   [] token.type = "SEQUENCE" -> "[sequence]"
                                   [] OTHER -> token.str,
                   comment   |-> token.comment]
    IN [sources |-> <<source>>,
        type    |-> token.type,
        kind    |-> token.kind,
        str     |-> token.str,
        seq     |-> [i \in 1..Len(token.seq) |->
                        parseTokenParams(token.seq[i], className, classType)],
        map     |-> [i \in 1..Len(token.map) |->
                        Entry(token.map[i].key,
                              parseTokenParams(token.map[i].val, className, classType))],
        ref     |-> <<>>,
        comment |-> <<token.comment>>]

\* the accumulator a class starts with (rClass.params)
EmptyParams ==
    [sources |-> <<>>, type |-> "MAP", kind |-> "object", str |-> "",
     seq |-> <<>>, map |-> <<>>, ref |-> <<>>, comment |-> <<>>]

----------------------------------------------------------------------------
(* Resolver.mergeParams *)

RECURSIVE Repeat(_, _)
Repeat(s, n) == IF n = 0 THEN <<>> ELSE s \o Repeat(s, n - 1)

\* position of key k among the entries, 0 when absent
IndexOfKey(entries, k) ==
    IF \E i \in 1..Len(entries) : entries[i].key = k
    THEN CHOOSE i \in 1..Len(entries) : entries[i].key = k
    ELSE 0

\* the comments pushed by the loop over source.sources: every non-empty
\* comment group of source, once per source record
pushedComments(source) ==
    Repeat(SelectSeq(source.comment, LAMBDA c : Len(c) > 0), Len(source.sources))

\* _sources: source.sources with the last record cloned and given mergeType mt
markedSources(source, mt) ==
    [i \in 1..Len(source.sources) |->
        IF i = Len(source.sources)
        THEN [source.sources[i] EXCEPT !.mergeType = mt]
        ELSE source.sources[i]]

\* what `for(let i in source.value)` enumerates
forInEntries(source) ==
    CASE source.kind = "object" -> source.map
      [] source.kind = "array" /\ source.seq = <<>> -> source.map
      [] source.kind = "string" /\ source.str = "" -> <<>>

\* what `for(i = 0; i < source.value.length; i++) source.value[i]` visits
indexedElements(source) ==
    CASE source.kind = "array" -> source.seq
      [] source.kind = "object" -> <<>>
      [] source.kind = "string" /\ source.str = "" -> <<>>

\* the REPLACE branch: target.value = clone(source.value)
replaceValue(target, source) ==
    LET c == clone(source)
    IN [target EXCEPT !.kind = c.kind, !.str = c.str, !.seq = c.seq, !.map = c.map]

\* the SEQUENCE branch: target.value.push(clone(source.value[i])) for each i
pushElements(target, source) ==
    LET elems == indexedElements(source)
    IN IF elems = <<>> THEN [err |-> NoError, p |-> target]
       ELSE IF target.kind # "array" THEN [err |-> TypeErrorPush, p |-> target]
       ELSE [err |-> NoError,
             p   |-> [target EXCEPT
                        !.seq = @ \o [i \in 1..Len(elems) |-> clone(elems[i])]]]

RECURSIVE mergeParams(_, _)
RECURSIVE mergeEntries(_, _, _)

\* one turn of the loop of the MAP branch, for the source entry e; j is the
\* position of e's key in target.value (0: target.value[e.key] is undefined)
\* and r the outcome of the recursive merge when j > 0
mergeEntry(target, entries, i, j, r) ==
    IF j > 0
    THEN IF r.err # NoError
         THEN [err |-> r.err, p |-> [target EXCEPT !.map[j].val = r.p]]
         ELSE mergeEntries([target EXCEPT !.map[j].val = r.p], entries, i + 1)
    ELSE IF target.kind = "string"
         THEN [err |-> TypeErrorCreateProperty, p |-> target]
         ELSE mergeEntries(
                [target EXCEPT !.map = Append(@, Entry(entries[i].key,
                                                       clone(entries[i].val)))],
                entries, i + 1)

\* position of key k among the properties of target.value
propertyIndex(target, k) ==
    IF target.kind = "string" THEN 0 ELSE IndexOfKey(target.map, k)

\* the MAP branch: the loop over the keys of source.value, from entry i on
mergeEntries(target, entries, i) ==
    IF i > Len(entries) THEN [err |-> NoError, p |-> target]
    ELSE IF propertyIndex(target, entries[i].key) > 0
         THEN mergeEntry(target, entries, i, propertyIndex(target, entries[i].key),
                mergeParams(target.map[propertyIndex(target, entries[i].key)].val,
                            entries[i].val))
         ELSE mergeEntry(target, entries, i, 0, [err |-> NoError, p |-> target])

\* target with the comments the loop over source.sources pushes
withComments(target, source) ==
    [target EXCEPT !.comment = @ \o pushedComments(source)]

\* the end of mergeParams: target.sources = target.sources.concat(_sources),
\* not reached when the branch threw
addSources(r, source, mt) ==
    IF r.err # NoError THEN r
    ELSE [err |-> NoError,
          p   |-> [r.p EXCEPT !.sources = @ \o markedSources(source, mt)]]

\* mergeParams(target, source): [err, p], p the target as the call leaves it
\* (also when it throws half-way: the target is mutated in place)
mergeParams(target, source) ==
    IF Len(source.sources) = 0
    THEN [err |-> TypeErrorLastSource, p |-> target]
    ELSE IF target.type = "MAP" /\ source.type = "MAP"
    THEN addSources(mergeEntries(withComments(target, source), forInEntries(source), 1),
                    source, "MERGED")
    ELSE IF target.type = "SEQUENCE" /\ source.type = "SEQUENCE"
    THEN addSources(pushElements(withComments(target, source), source),
                    source, "MERGED")
    ELSE addSources([err |-> NoError,
                     p |-> replaceValue(withComments(target, source), source)],
                    source, "REPLACED")

----------------------------------------------------------------------------
(* Documents and the reclass directory *)

classesDir == "/classes"
nodesDir == "/nodes"

\* a key of the document's root map that is absent
NoKey == [present |-> FALSE, type |-> "VALUE", names |-> <<>>, tok |-> TokValue("", <<>>)]
\* `classes:` / `applications:` holding a sequence of scalar tokens
NameList(names) ==
    [present |-> TRUE, type |-> "SEQUENCE", names |-> names, tok |-> TokValue("", <<>>)]
\* `parameters:` holding the token tok
Params(tok) == [present |-> TRUE, type |-> tok.type, names |-> <<>>, tok |-> tok]

\* state: "ok" (a root map), "empty" (tokenizer returns null), "malformed"
Document(classes, applications, parameters) ==
    [state |-> "ok", classes |-> classes, applications |-> applications,
     parameters |-> parameters]

NoDocument == [state |-> "empty", classes |-> NoKey, applications |-> NoKey,
               parameters |-> NoKey]

\* a file holds its modification time (ms) and the name of its content
NoFile == [exists |-> FALSE, mtime |-> 0, doc |-> "none"]

\* Date.prototype.toString, as `_path + ":" + stat.mtime` applies it: the
\* time down to the second, the milliseconds dropped
DateString(ms) == ms \div 1000

----------------------------------------------------------------------------
(* The reclass directory of the model *)

NoComment == <<>>
Scalar(s) == TokValue(s, NoComment)

ClassNames == {"base", "mid", "top", "gone", "apps", "loop", "bad"}
ClassIds == { classesDir \o "/" \o n : n \in ClassNames }
IdOf(name) == classesDir \o "/" \o name

\*  base:  applications: [a1]
\*         parameters: {k: s, q: "1", l: [e1], e: {}}
BaseDoc ==
    Document(NoKey, NameList(<<"a1">>),
        Params(TokMap(<<Entry("k", Scalar("s")),
                        Entry("q", Scalar("1")),
                        Entry("l", TokSequence(<<Scalar("e1")>>, NoComment)),
                        Entry("e", TokMap(<<>>, NoComment))>>, NoComment)))

\*  mid:   classes: [base]
\*         parameters: {k: {x: "1"}, e: t}
MidDoc ==
    Document(NameList(<<"base">>), NoKey,
        Params(TokMap(<<Entry("k", TokMap(<<Entry("x", Scalar("1"))>>, <<"k of mid">>)),
                        Entry("e", Scalar("t"))>>, NoComment)))

TopParams ==
    Params(TokMap(<<Entry("k", TokMap(<<Entry("y", Scalar("2"))>>, NoComment)),
                    Entry("q", Scalar("2")),
                    Entry("l", TokSequence(<<Scalar("e2")>>, NoComment))>>, NoComment))

\*  top:   classes: [mid, gone, apps, mid]
\*         applications: [a1]
\*         parameters: {k: {y: "2"}, q: "2", l: [e2]}
TopDoc == Document(NameList(<<"mid", "gone", "apps", "mid">>), NameList(<<"a1">>), TopParams)

\*  top, rewritten without the parent mid
TopDocNoMid == Document(NameList(<<"gone", "apps">>), NameList(<<"a1">>), TopParams)

\*  gone:  parameters: {g: "1"}          (the file is missing at first)
GoneDoc ==
    Document(NoKey, NoKey, Params(TokMap(<<Entry("g", Scalar("1"))>>, NoComment)))

\*  apps:  applications: [a2]            (no parameters)
AppsDoc == Document(NoKey, NameList(<<"a2">>), NoKey)

\*  loop:  classes: [loop]
\*         parameters: {l: [e]}
LoopDoc ==
    Document(NameList(<<"loop">>), NoKey,
        Params(TokMap(<<Entry("l", TokSequence(<<Scalar("e")>>, NoComment))>>, NoComment)))

\*  bad:   classes: [mid]
\*         parameters: {q: "3", e: {y: "2"}}
BadDoc ==
    Document(NameList(<<"mid">>), NoKey,
        Params(TokMap(<<Entry("q", Scalar("3")),
                        Entry("e", TokMap(<<Entry("y", Scalar("2"))>>, NoComment))>>,
                      NoComment)))

NodeNames == {"web", "db"}
NodeIdOf(name) == nodesDir \o "/" \o name
NodeIds == { NodeIdOf(n) : n \in NodeNames }

\*  web:   classes: [base]
\*         parameters: {a: {b: x}, c: "value is ${a:b}", d: "${a:b}",
\*                      r: "${a}", s: "see ${a}", u: "${l:0}",
\*                      t: "${w} and ${c}", w: "${q}", m: "${missing}"}
WebDoc ==
    Document(NameList(<<"base">>), NoKey,
        Params(TokMap(<<Entry("a", TokMap(<<Entry("b", Scalar("x"))>>, NoComment)),
                        Entry("c", Scalar("value is ${a:b}")),
                        Entry("d", Scalar("${a:b}")),
                        Entry("r", Scalar("${a}")),
                        Entry("s", Scalar("see ${a}")),
                        Entry("u", Scalar("${l:0}")),
                        Entry("t", Scalar("${w} and ${c}")),
                        Entry("w", Scalar("${q}")),
                        Entry("m", Scalar("${missing}"))>>, NoComment)))

\*  web, rewritten:  parameters: {c: "${q}"}
WebDocSmall ==
    Document(NoKey, NoKey,
        Params(TokMap(<<Entry("c", Scalar("${q}"))>>, NoComment)))

\*  db:    classes: [base]
\*         parameters: {pw: "pa$$word", login: "pw ${pw}", e: "${q}",
\*                      two: "${q}${q}", o: "${l}"}
DbDoc ==
    Document(NameList(<<"base">>), NoKey,
        Params(TokMap(<<Entry("pw", Scalar("pa$$word")),
                        Entry("login", Scalar("pw ${pw}")),
                        Entry("e", Scalar("${q}")),
                        Entry("two", Scalar("${q}${q}")),
                        Entry("o", Scalar("${l}"))>>, NoComment)))

\*  db, rewritten with a cycle:  parameters: {x: "${y}", y: "${x}"}
DbDocCycle ==
    Document(NoKey, NoKey,
        Params(TokMap(<<Entry("x", Scalar("${y}")),
                        Entry("y", Scalar("${x}"))>>, NoComment)))

\*  init:  parameters: {i: "1", q: "9"}  (the init class of the directory)
InitDoc ==
    Document(NoKey, NoKey,
        Params(TokMap(<<Entry("i", Scalar("1")),
                        Entry("q", Scalar("9"))>>, NoComment)))

\*  web, rewritten with two parents:  classes: [base, init]
\*                                    parameters: {c: "${q}", i: "2"}
WebDocBaseInit ==
    Document(NameList(<<"base", "init">>), NoKey,
        Params(TokMap(<<Entry("c", Scalar("${q}")),
                        Entry("i", Scalar("2"))>>, NoComment)))

\*  web, rewritten with the parents exchanged:  classes: [init, base]
\*                                              parameters: {c: "${q}", q: "7"}
WebDocInitBase ==
    Document(NameList(<<"init", "base">>), NoKey,
        Params(TokMap(<<Entry("c", Scalar("${q}")),
                        Entry("q", Scalar("7"))>>, NoComment)))

\* a key of the document's root map that holds a scalar
ScalarKey == [present |-> TRUE, type |-> "VALUE", names |-> <<>>, tok |-> TokValue("", <<>>)]

GraphClasses ==
    {"base", "mid", "side", "dia", "over", "apps", "uses", "late", "ping", "pong"}

\*  side:  classes: [base]
\*         applications: [a1, a3]
\*         parameters: {l: [e3]}
SideDoc ==
    Document(NameList(<<"base">>), NameList(<<"a1", "a3">>),
        Params(TokMap(<<Entry("l", TokSequence(<<Scalar("e3")>>, NoComment))>>, NoComment)))

\*  dia:   classes: [mid, side, mid]
\*         applications: [a1]
\*         parameters: {q: "4"}
DiaDoc ==
    Document(NameList(<<"mid", "side", "mid">>), NameList(<<"a1">>),
        Params(TokMap(<<Entry("q", Scalar("4"))>>, NoComment)))

\*  over:  classes: [dia]
OverDoc == Document(NameList(<<"dia">>), NoKey, NoKey)

\*  uses:  classes: [apps]
\*         parameters: {q: "5"}
UsesDoc ==
    Document(NameList(<<"apps">>), NoKey,
        Params(TokMap(<<Entry("q", Scalar("5"))>>, NoComment)))

\*  late:  classes: [base]
\*         applications: a1               (a scalar, not a sequence)
LateDoc == Document(NameList(<<"base">>), ScalarKey, NoKey)

\*  late, rewritten:  classes: [base]
\*                    parameters: x       (a scalar, not a map)
LateDocParams == Document(NameList(<<"base">>), NoKey, ScalarKey)

\*  ping:  classes: [pong]
\*         parameters: {p: "1"}
PingDoc ==
    Document(NameList(<<"pong">>), NoKey,
        Params(TokMap(<<Entry("p", Scalar("1"))>>, NoComment)))

\*  pong:  classes: [ping]
\*         parameters: {o: "1"}
PongDoc ==
    Document(NameList(<<"ping">>), NoKey,
        Params(TokMap(<<Entry("o", Scalar("1"))>>, NoComment)))

\*  web, over a chain and a cycle:  classes: [mid, ping]
\*                                   parameters: {c: "${q}"}
WebDocMidPing ==
    Document(NameList(<<"mid", "ping">>), NoKey,
        Params(TokMap(<<Entry("c", Scalar("${q}"))>>, NoComment)))

\* the same node naming mid a second time
WebDocMidPingMid ==
    Document(NameList(<<"mid", "ping", "mid">>), NoKey,
        Params(TokMap(<<Entry("c", Scalar("${q}"))>>, NoComment)))

\* the content of a file, by name
Content(doc) ==
    CASE doc = "base" -> BaseDoc
      [] doc = "mid"  -> MidDoc
      [] doc = "top"  -> TopDoc
      [] doc = "top without mid" -> TopDocNoMid
      [] doc = "gone" -> GoneDoc
      [] doc = "apps" -> AppsDoc
      [] doc = "loop" -> LoopDoc
      [] doc = "bad"  -> BadDoc
      [] doc = "web"  -> WebDoc
      [] doc = "web small" -> WebDocSmall
      [] doc = "db"   -> DbDoc
      [] doc = "db cycle" -> DbDocCycle
      [] doc = "init" -> InitDoc
      [] doc = "web base init" -> WebDocBaseInit
      [] doc = "web init base" -> WebDocInitBase
      [] doc = "side" -> SideDoc
      [] doc = "dia"  -> DiaDoc
      [] doc = "over" -> OverDoc
      [] doc = "uses" -> UsesDoc
      [] doc = "late" -> LateDoc
      [] doc = "late parameters" -> LateDocParams
      [] doc = "ping" -> PingDoc
      [] doc = "pong" -> PongDoc
      [] doc = "web mid ping" -> WebDocMidPing
      [] doc = "web mid ping mid" -> WebDocMidPingMid
      [] doc = "empty" -> NoDocument
      [] OTHER -> NoDocument

\* the files the environment touches, removes and writes
Touched == {"base", "apps"}
Removed == {"mid"}
Written == { <<"gone", "gone">>, <<"top", "top without mid">> }

\* the classes callers ask the Resolver for, and those they invalidate by id
Requested == {"top", "loop", "bad"}
InvalidatedByCaller == {"base", "mid"}

----------------------------------------------------------------------------
(* Resolver.resolve *)

\* an Error, with the class whose resolve frame threw it
Err(message, classId) == [message |-> message, classId |-> classId]
NoErr == Err(NoError, "")

DepthExceeded == "Maximum class depth limit exceeded."
FileNotFound == "File not found."
ParseFailed == "YAML parse error"
FileEmpty == "Class file is empty."
ClassesNotSequence == "'classes' are not sequence type."
ApplicationsNotSequence == "'applications' are not sequence type."
ParametersNotMap == "'parameters' are not map type."

\* _class.dependents[classId] = {id, type, name}
addDependent(dependents, rc) ==
    LET d == [id |-> rc.id, type |-> rc.type, name |-> rc.name]
    IN IF \E i \in 1..Len(dependents) : dependents[i].id = rc.id
       THEN [i \in 1..Len(dependents) |->
                IF dependents[i].id = rc.id THEN d ELSE dependents[i]]
       ELSE Append(dependents, d)

\* dependencyTree[_classId].push(classId) unless already listed
addEdge(tree, parentId, classId) ==
    LET old == IF parentId \in DOMAIN tree THEN tree[parentId] ELSE <<>>
        new == IF \E i \in 1..Len(old) : old[i] = classId THEN old
               ELSE Append(old, classId)
    IN [k \in DOMAIN tree \cup {parentId} |-> IF k = parentId THEN new ELSE tree[k]]

RECURSIVE mergeApplicationsKept(_, _, _)
\* a variant of mergeApplications that keeps the entry the class already
\* holds for an application instead of concatenating the source lists
mergeApplicationsKept(own, theirs, j) ==
    IF j > Len(theirs) THEN own
    ELSE mergeApplicationsKept(
           IF IndexOfKey(own, theirs[j].key) = 0 THEN Append(own, theirs[j]) ELSE own,
           theirs, j + 1)

RECURSIVE mergeApplications(_, _, _)
\* the loop over the parent's applications, from entry j on
mergeApplications(own, theirs, j) ==
    IF j > Len(theirs) THEN own
    ELSE LET a == theirs[j]
             k == IndexOfKey(own, a.key)
         IN mergeApplications(
              IF k = 0 THEN Append(own, a)
              ELSE [own EXCEPT ![k].sources = a.sources \o @],
              theirs, j + 1)

RECURSIVE addApplications(_, _, _, _)
\* the loop over the class's own `applications`, from token i on
addApplications(apps, names, i, rc) ==
    IF i > Len(names) THEN apps
    ELSE LET src == [className |-> rc.name, classType |-> rc.type]
             k   == IndexOfKey(apps, names[i])
         IN addApplications(
              IF k = 0 THEN Append(apps, [key |-> names[i], sources |-> <<src>>])
              ELSE [apps EXCEPT ![k].sources = Append(@, src)],
              names, i + 1, rc)

\* put this.cache[id] = rc
cachePut(c, id, rc) == [k \in DOMAIN c \cup {id} |-> IF k = id THEN rc ELSE c[k]]

\* the dependency record pushed to rClass.classes
dependencyClass(pid, name, classes, error) ==
    [id |-> pid, name |-> name, classes |-> classes, error |-> error]

\* a variant of mergeParent that merges the accumulator over the parent's
\* tree instead of the parent's tree into the accumulator
mergeParentUnder(rc, name, parent, m) ==
    [rc EXCEPT
       !.applications = mergeApplications(@, parent.applications, 1),
       !.params = IF rc.params = EmptyParams \/ m.err # NoError THEN m.p
                  ELSE mergeParams(clone(parent.params), rc.params).p,
       !.fingerprint.parents =
           IF m.err = NoError THEN Append(@, parent.fingerprint) ELSE @,
       !.classes = Append(@, dependencyClass(parent.id, name, parent.classes,
                       IF m.err = NoError THEN NoErr ELSE Err(m.err, rc.id)))]

\* a variant of mergeParent that merges a parent only when it shares no
\* parent with a class merged before it
mergeParentUnlessShared(rc, name, parent, m) ==
    IF \E i \in 1..Len(rc.classes) :
          \E j \in 1..Len(rc.classes[i].classes), k \in 1..Len(parent.classes) :
             rc.classes[i].classes[j].name = parent.classes[k].name
    THEN [rc EXCEPT
            !.classes = Append(@, dependencyClass(parent.id, name, parent.classes, NoErr))]
    ELSE [rc EXCEPT
            !.applications = mergeApplications(@, parent.applications, 1),
            !.params = m.p,
            !.fingerprint.parents =
                IF m.err = NoError THEN Append(@, parent.fingerprint) ELSE @,
            !.classes = Append(@, dependencyClass(parent.id, name, parent.classes,
                            IF m.err = NoError THEN NoErr ELSE Err(m.err, rc.id)))]

\* the try block after resolveClass returned the class parent: the parent's
\* applications are merged, then its params (m is the outcome of that
\* mergeParams call; when it threw, the fingerprint is not updated and the
\* error is kept in the dependency record)
mergeParent(rc, name, parent, m) ==
    [rc EXCEPT
       !.applications = mergeApplications(@, parent.applications, 1),
       !.params = m.p,
       !.fingerprint.parents =
           IF m.err = NoError THEN Append(@, parent.fingerprint) ELSE @,
       !.classes = Append(@, dependencyClass(parent.id, name, parent.classes,
                       IF m.err = NoError THEN NoErr ELSE Err(m.err, rc.id)))]

\* a variant of parentFailed that records the dependency edge although the
\* parent was not resolved
parentFailedWithEdge(rc, name, r) ==
    [rc |-> [rc EXCEPT !.classes =
               Append(@, dependencyClass(classesDir \o "/" \o name, name, <<>>, r.err))],
     st |-> [r.st EXCEPT !.dependencyTree = addEdge(@, classesDir \o "/" \o name, rc.id)]]

\* the catch block: resolveClass(name, depth + 1) threw r.err, which is kept
\* in the dependency record of the parent; nothing else changes
parentFailed(rc, name, r) ==
    [rc |-> [rc EXCEPT !.classes =
               Append(@, dependencyClass(classesDir \o "/" \o name, name, <<>>, r.err))],
     st |-> r.st]

\* a variant of includedClass for a mergeParams that appends the source
\* records to the list of its source as well as to the list of its target
includedClassShared(parent, rc) ==
    [parent EXCEPT
       !.dependents = addDependent(@, rc),
       !.params.sources = @ \o markedSources(parent.params, "MERGED")]

\* the cached parent _class as the try block leaves it: the child is entered
\* in _class.dependents; mergeParams(rClass.params, _class.params) writes to
\* its target only (the values and the last source record it takes from the
\* source are clones, the other source records and the comment groups are
\* shared but never written)
includedClass(parent, rc) ==
    [parent EXCEPT !.dependents = addDependent(@, rc)]

\* one turn of the loop over the `classes` tokens: r is what
\* resolveClass(name, depth + 1) returned or threw
includeParent(rc, name, r) ==
    IF r.err # NoErr
    THEN parentFailed(rc, name, r)
    ELSE [rc |-> mergeParent(rc, name, r.st.cache[classesDir \o "/" \o name],
                   mergeParams(rc.params, r.st.cache[classesDir \o "/" \o name].params)),
          st |-> [r.st EXCEPT
                    !.cache[classesDir \o "/" \o name] = includedClass(@, rc),
                    !.dependencyTree = addEdge(@, classesDir \o "/" \o name, rc.id)]]

RECURSIVE resolve(_, _, _, _)
RECURSIVE resolveParents(_, _, _, _, _)

\* the rest of the loop, p = [rc, st] being the class and the Resolver's
\* state after the previous turn
nextParent(p, names, i, depth) == resolveParents(p.rc, names, i, depth, p.st)

\* the loop over the `classes` tokens, from token i on, in the frame of the
\* class rc at the given depth.  st = [fs, cache, dependencyTree].
resolveParents(rc, names, i, depth, st) ==
    IF i > Len(names) THEN [rc |-> rc, st |-> st]
    ELSE IF \E k \in 1..Len(rc.resolvedClasses) : rc.resolvedClasses[k] = names[i]
    THEN resolveParents(rc, names, i + 1, depth, st)
    ELSE nextParent(
           includeParent([rc EXCEPT !.resolvedClasses = Append(@, names[i])],
                         names[i],
                         resolve(classesDir, names[i], depth + 1, st)),
           names, i + 1, depth)

\* the class instance resolve prepares (rClass), with the running hash
newClass(prefix, name, file) ==
    [id |-> prefix \o "/" \o name,
     name |-> name,
     type |-> IF prefix = nodesDir THEN "NODE" ELSE "CLASS",
     filename |-> prefix \o "/" \o name,
     classes |-> <<>>,
     applications |-> <<>>,
     dependents |-> <<>>,
     params |-> EmptyParams,
     fingerprint |-> [path |-> prefix \o "/" \o name,
                      mtime |-> DateString(file.mtime),
                      parents |-> <<>>],
     modified |-> file.mtime,
     resolvedClasses |-> <<>>]

\* the end of resolve: m is the outcome of merging the class's own
\* parameters; the class is cached unless that merge threw
storeClass(rc, st, m) ==
    IF m.err # NoError THEN [err |-> Err(m.err, rc.id), st |-> st]
    ELSE [err |-> NoErr,
          st  |-> [st EXCEPT !.cache = cachePut(@, rc.id, [rc EXCEPT !.params = m.p])]]

\* "Add params": the class's own parameters are parsed and merged last
addParams(rc, doc, st) ==
    IF ~doc.parameters.present
    THEN storeClass(rc, st, [err |-> NoError, p |-> rc.params])
    ELSE IF doc.parameters.type # "MAP"
    THEN [err |-> Err(ParametersNotMap, rc.id), st |-> st]
    ELSE storeClass(rc, st,
           mergeParams(rc.params, parseTokenParams(doc.parameters.tok, rc.name, rc.type)))

\* "Add applications", after the parent loop left p = [rc, st]
addOwn(p, doc) ==
    IF doc.applications.present /\ doc.applications.type # "SEQUENCE"
    THEN [err |-> Err(ApplicationsNotSequence, p.rc.id), st |-> p.st]
    ELSE addParams([p.rc EXCEPT !.applications =
                      addApplications(@, doc.applications.names, 1, p.rc)],
                   doc, p.st)

\* resolve once the file is found: tokenize, then parents, applications,
\* parameters
resolveFile(prefix, name, depth, st, file, doc) ==
    IF doc.state = "malformed"
    THEN [err |-> Err(ParseFailed, prefix \o "/" \o name), st |-> st]
    ELSE IF doc.state = "empty"
    THEN [err |-> Err(FileEmpty, prefix \o "/" \o name), st |-> st]
    ELSE IF doc.classes.present /\ doc.classes.type # "SEQUENCE"
    THEN [err |-> Err(ClassesNotSequence, prefix \o "/" \o name), st |-> st]
    ELSE addOwn(resolveParents(newClass(prefix, name, file),
                               doc.classes.names, 1, depth, st),
                doc)

\* a variant of resolve that does not look the class up in the cache
resolveUncached(prefix, name, depth, st) ==
    IF depth > depthLimit
    THEN [err |-> Err(DepthExceeded, prefix \o "/" \o name), st |-> st]
    ELSE IF ~st.fs[prefix \o "/" \o name].exists
    THEN [err |-> Err(FileNotFound, prefix \o "/" \o name), st |-> st]
    ELSE resolveFile(prefix, name, depth, st, st.fs[prefix \o "/" \o name],
                     Content(st.fs[prefix \o "/" \o name].doc))

\* resolve(prefix, name, path, depth): [err, st]; on success the class
\* returned is st.cache[prefix + "/" + name]
resolve(prefix, name, depth, st) ==
    IF depth > depthLimit
    THEN [err |-> Err(DepthExceeded, prefix \o "/" \o name), st |-> st]
    ELSE IF (prefix \o "/" \o name) \in DOMAIN st.cache
    THEN [err |-> NoErr, st |-> st]
    ELSE IF ~st.fs[prefix \o "/" \o name].exists
    THEN [err |-> Err(FileNotFound, prefix \o "/" \o name), st |-> st]
    ELSE resolveFile(prefix, name, depth, st, st.fs[prefix \o "/" \o name],
                     Content(st.fs[prefix \o "/" \o name].doc))

\* resolveClass(name, depth)
resolveClass(name, depth, st) == resolve(classesDir, name, depth, st)

----------------------------------------------------------------------------
(* Resolver.invalidate, Resolver.invalidateModified *)

RECURSIVE invalidate(_, _, _)
RECURSIVE invalidateDependants(_, _, _, _)

\* a variant of invalidate that forgets the cascade: only the id is deleted
invalidateOnly(c, tree, classId) == [k \in DOMAIN c \ {classId} |-> c[k]]

\* a variant of invalidate that deletes the id and the ids recorded as
\* depending on it, but not the ids depending on those
invalidateDirect(c, tree, classId) ==
    [k \in DOMAIN c \ ({classId} \cup
         (IF classId \in DOMAIN tree
          THEN { tree[classId][i] : i \in 1..Len(tree[classId]) } ELSE {})) |-> c[k]]

\* the loop over dependencyTree[classId], from position i on
invalidateDependants(c, tree, deps, i) ==
    IF i > Len(deps) THEN c
    ELSE invalidateDependants(
           IF deps[i] \in DOMAIN c THEN invalidate(c, tree, deps[i]) ELSE c,
           tree, deps, i + 1)

\* invalidate(classId): the cache it leaves
invalidate(c, tree, classId) ==
    LET c1 == [k \in DOMAIN c \ {classId} |-> c[k]]
    IN IF classId \in DOMAIN tree
       THEN invalidateDependants(c1, tree, tree[classId], 1)
       ELSE c1

\* a variant of isModified that forgets to compare the modification time
isMissing(fs, rc) == ~fs[rc.filename].exists

\* whether invalidateModified finds the cached class rc changed on disk
isModified(fs, rc) ==
    ~fs[rc.filename].exists \/ fs[rc.filename].mtime # rc.modified

RECURSIVE invalidateModified(_, _, _, _)
\* the loop over the cache keys still to visit; a key deleted meanwhile is
\* not visited (the visiting order does not change the cache it leaves)
invalidateModified(c, tree, fs, todo) ==
    IF todo = {} THEN c
    ELSE LET id == CHOOSE x \in todo : TRUE
         IN invalidateModified(
              IF id \in DOMAIN c /\ isModified(fs, c[id])
              THEN invalidate(c, tree, c[id].id) ELSE c,
              tree, fs, todo \ {id})

----------------------------------------------------------------------------
(* Strings: RegExp /\${[^}]+}/g, String.split, String.replace *)

RECURSIVE indexOf(_, _, _)
\* s.indexOf(c, i - 1) + 1: the first position from i on where c occurs, or 0
indexOf(s, c, i) ==
    IF i + Len(c) - 1 > Len(s) THEN 0
    ELSE IF SubSeq(s, i, i + Len(c) - 1) = c THEN i
    ELSE indexOf(s, c, i + 1)

RECURSIVE matchesFrom(_, _)
\* what the loop `while((ip = pattern.exec(s)))` yields as ip[0], searching
\* from position i: "${", one or more characters other than "}", then "}"
matchesFrom(s, i) ==
    IF i + 3 > Len(s) THEN <<>>
    ELSE IF SubSeq(s, i, i + 1) = "${" /\ indexOf(s, "}", i + 2) >= i + 3
    THEN <<SubSeq(s, i, indexOf(s, "}", i + 2))>>
            \o matchesFrom(s, indexOf(s, "}", i + 2) + 1)
    ELSE matchesFrom(s, i + 1)

\* ip[0].substr(2, ip[0].length - 3)
refKeyOf(m) == SubSeq(m, 3, Len(m) - 1)

RECURSIVE split(_, _)
\* s.split(sep)
split(s, sep) ==
    IF indexOf(s, sep, 1) = 0 THEN <<s>>
    ELSE <<SubSeq(s, 1, indexOf(s, sep, 1) - 1)>>
            \o split(SubSeq(s, indexOf(s, sep, 1) + Len(sep), Len(s)), sep)

RECURSIVE getSubstitution(_, _, _, _)
\* the replacement text of String.replace for a string pattern: "$$" is "$",
\* "$&" the matched text, "$`" and "$'" the text before and after the match
getSubstitution(repl, matched, before, after) ==
    IF repl = "" THEN ""
    ELSE IF Len(repl) >= 2 /\ SubSeq(repl, 1, 1) = "$"
              /\ SubSeq(repl, 2, 2) \in {"$", "&", "`", "'"}
    THEN (CASE SubSeq(repl, 2, 2) = "$" -> "$"
            [] SubSeq(repl, 2, 2) = "&" -> matched
            [] SubSeq(repl, 2, 2) = "`" -> before
            [] SubSeq(repl, 2, 2) = "'" -> after)
         \o getSubstitution(SubSeq(repl, 3, Len(repl)), matched, before, after)
    ELSE SubSeq(repl, 1, 1)
            \o getSubstitution(SubSeq(repl, 2, Len(repl)), matched, before, after)

\* s.replace(key, repl): the first occurrence of key only
replace(s, key, repl) ==
    LET i == indexOf(s, key, 1)
    IN IF i = 0 THEN s
       ELSE SubSeq(s, 1, i - 1)
              \o getSubstitution(repl, key, SubSeq(s, 1, i - 1),
                                 SubSeq(s, i + Len(key), Len(s)))
              \o SubSeq(s, i + Len(key), Len(s))

----------------------------------------------------------------------------
(* Resolver.parseInterpolation, interpolateClass, resolveNode *)

\* a step into a parameter's value: a property of an object (or a named
\* property of an array) or an element of an array
MapStep(i) == [at |-> "map", i |-> i]
SeqStep(i) == [at |-> "seq", i |-> i]

RECURSIVE paramAt(_, _)
\* the parameter reached from p along the steps
paramAt(p, steps) ==
    IF steps = <<>> THEN p
    ELSE IF Head(steps).at = "map"
    THEN paramAt(p.map[Head(steps).i].val, Tail(steps))
    ELSE paramAt(p.seq[Head(steps).i], Tail(steps))

RECURSIVE withParamAt(_, _, _)
\* p with the parameter at the steps replaced by q
withParamAt(p, steps, q) ==
    IF steps = <<>> THEN q
    ELSE IF Head(steps).at = "map"
    THEN [p EXCEPT !.map[Head(steps).i].val = withParamAt(@, Tail(steps), q)]
    ELSE [p EXCEPT !.seq[Head(steps).i] = withParamAt(@, Tail(steps), q)]

\* the index an array has for the property name key, 0 when key is no index
ArrayIndex(key) ==
    CASE key = "0" -> 1 [] key = "1" -> 2 [] key = "2" -> 3 [] key = "3" -> 4
      [] OTHER -> 0

\* stack.value instanceof Object && stack.value[key] !== undefined
hasProperty(stack, key) ==
    CASE stack.kind = "object" -> IndexOfKey(stack.map, key) > 0
      [] stack.kind = "array" ->
            \/ (ArrayIndex(key) > 0 /\ ArrayIndex(key) <= Len(stack.seq))
            \/ IndexOfKey(stack.map, key) > 0
      [] OTHER -> FALSE

\* stack.value[key]
property(stack, key) ==
    IF stack.kind = "array" /\ ArrayIndex(key) > 0
    THEN stack.seq[ArrayIndex(key)]
    ELSE stack.map[IndexOfKey(stack.map, key)].val

RECURSIVE walk(_, _)
\* the loop `while((key = refPath.shift()))` from stack on: it ends at the
\* end of the path and at an empty key; found is FALSE for stack = null
walk(stack, refPath) ==
    IF refPath = <<>> \/ Head(refPath) = "" THEN [found |-> TRUE, p |-> stack]
    ELSE IF hasProperty(stack, Head(refPath))
    THEN walk(property(stack, Head(refPath)), Tail(refPath))
    ELSE [found |-> FALSE, p |-> stack]

\* a JavaScript value a leaf is given: null or a string
Null == [null |-> TRUE, str |-> ""]
Str(s) == [null |-> FALSE, str |-> s]

\* the entry pushed to `replacements` for the match m
replacementFor(rootParam, m) ==
    LET stack == walk(rootParam, split(refKeyOf(m), ":"))
    IN [key   |-> m,
        value |-> IF ~stack.found THEN Null
                  ELSE IF stack.p.kind \in {"object", "array"}
                  THEN Str("#!ref!#" \o refKeyOf(m))
                  ELSE IF stack.p.kind = "null" THEN Null
                  ELSE Str(stack.p.str)]

\* String(v) as String.replace converts its replacement
StringOf(v) == IF v.null THEN "null" ELSE v.str

RECURSIVE applyReplacements(_, _, _)
\* the loop over `replacements`, from entry i on, on the leaf param
applyReplacements(param, replacements, i) ==
    IF i > Len(replacements) THEN param
    ELSE applyReplacements(
           CASE param.kind = "string" /\ param.str = replacements[i].key ->
                  [param EXCEPT
                     !.ref  = Append(@, replacements[i].key),
                     !.kind = IF replacements[i].value.null THEN "null" ELSE "string",
                     !.str  = replacements[i].value.str]
             [] param.kind = "string" /\ param.str # replacements[i].key ->
                  [param EXCEPT
                     !.ref = Append(@, replacements[i].key),
                     !.str = replace(@, replacements[i].key,
                                     StringOf(replacements[i].value))],
           replacements, i + 1)

\* the text pattern.exec scans: exec converts its argument to a string
scanned(param) == IF param.kind = "null" THEN "null" ELSE param.str

RECURSIVE expandLeaf(_, _, _)
\* the loop `while(!resolved)` on the leaf at the steps; passes counts the
\* turns left before the loop is taken not to end
expandLeaf(rootParam, steps, passes) ==
    LET param == paramAt(rootParam, steps)
        ms    == matchesFrom(scanned(param), 1)
    IN IF ms = <<>> THEN [diverges |-> FALSE, p |-> rootParam]
       ELSE IF passes = 0 THEN [diverges |-> TRUE, p |-> rootParam]
       ELSE expandLeaf(
              withParamAt(rootParam, steps,
                applyReplacements(param,
                  [k \in 1..Len(ms) |-> replacementFor(rootParam, ms[k])], 1)),
              steps, passes - 1)

RECURSIVE parseInterpolation(_, _)
RECURSIVE parseProperties(_, _, _)
RECURSIVE parseElements(_, _, _)

\* the rest of a loop over children once one child has been parsed
parseNext(r, steps, i, properties) ==
    IF r.diverges THEN r
    ELSE IF properties THEN parseProperties(r.p, steps, i)
    ELSE parseElements(r.p, steps, i)

\* `for(let i in param.value)` from the i-th enumerated property on: the
\* elements of an array come first, then the named properties
parseProperties(rootParam, steps, i) ==
    LET param == paramAt(rootParam, steps)
    IN IF i > Len(param.seq) + Len(param.map)
       THEN [diverges |-> FALSE, p |-> rootParam]
       ELSE parseNext(
              parseInterpolation(rootParam,
                 Append(steps, IF i <= Len(param.seq) THEN SeqStep(i)
                               ELSE MapStep(i - Len(param.seq)))),
              steps, i + 1, TRUE)

\* `for(i = 0; i < param.value.length; i++)` from element i on
parseElements(rootParam, steps, i) ==
    IF i > Len(paramAt(rootParam, steps).seq)
    THEN [diverges |-> FALSE, p |-> rootParam]
    ELSE parseNext(parseInterpolation(rootParam, Append(steps, SeqStep(i))),
                   steps, i + 1, FALSE)

\* parseInterpolation(rootParam, param), param being the parameter at the
\* steps from rootParam: [diverges, p], p the root as the call leaves it
parseInterpolation(rootParam, steps) ==
    LET param == paramAt(rootParam, steps)
    IN IF param.type = "MAP"
       THEN IF param.kind \in {"object", "array"}
            THEN parseProperties(rootParam, steps, 1)
            ELSE [diverges |-> FALSE, p |-> rootParam]
       ELSE IF param.type = "SEQUENCE"
       THEN IF param.kind = "array"
            THEN parseElements(rootParam, steps, 1)
            ELSE [diverges |-> FALSE, p |-> rootParam]
       ELSE IF param.kind = "string"
       THEN expandLeaf(rootParam, steps, MaxPasses)
       ELSE [diverges |-> FALSE, p |-> rootParam]

\* a variant of interpolateClass that takes `params: rClass.params` without
\* the clone, so that the expansion is applied to the tree of its input
interpolateClassShared(rClass) ==
    LET r == parseInterpolation(rClass.params, <<>>)
    IN [diverges |-> r.diverges,
        class    |-> [rClass EXCEPT !.params = r.p],
        rClass   |-> [rClass EXCEPT !.params = r.p]]

\* interpolateClass(rClass): class is the new class, sharing everything but
\* params, a clone on which parseInterpolation ran; rClass is the input as
\* the call leaves it
interpolateClass(rClass) ==
    LET r == parseInterpolation(clone(rClass.params), <<>>)
    IN [diverges |-> r.diverges,
        class    |-> [rClass EXCEPT !.params = r.p],
        rClass   |-> rClass]

----------------------------------------------------------------------------
(* Renderer.prepareClass: the property prepared for a parameter *)

type2str(type) ==
    CASE type = "MAP" -> "map" [] type = "SEQUENCE" -> "sequence"
      [] type = "VALUE" -> "value"

\* String(param.value).substr(0, 7) == "#!ref!#", for a value that is a
\* string (String(null) and String of an object do not begin with it)
isReference(param) ==
    /\ param.kind = "string"
    /\ Len(param.str) >= 7
    /\ SubSeq(param.str, 1, 7) = "#!ref!#"

\* prop.type and prop.value as prepareProp sets them for a parameter that is
\* neither of type MAP nor of type SEQUENCE
prepareProp(param) ==
    IF param.kind = "null"
    THEN [type |-> type2str(param.type), value |-> Null]
    ELSE IF isReference(param)
    THEN [type |-> "ref",
          value |-> Str("#param:" \o SubSeq(param.str, 8, Len(param.str)))]
    ELSE [type |-> type2str(param.type), value |-> Str(param.str)]


----------------------------------------------------------------------------
(* Inventory.load: readClasses, readNodes, fingerprintIndex *)

TypeErrorFingerprint == "TypeError: Cannot read property 'fingerprint' of null"

\* the IInventoryClass that Inventory.resolveClass and Inventory.resolveNode
\* return: the class, or null and the error caught
inventoryClass(id, err, class) ==
    [id |-> id, class |-> IF err = NoErr THEN <<class>> ELSE <<>>, error |-> err]

\* what fs.readdirSync lists of the names, in its order
listing(fs, prefix, names) ==
    SelectSeq(names, LAMBDA n : fs[prefix \o "/" \o n].exists)

\* Inventory.resolveClass(classPath, filename)
inventoryResolveClass(name, r) ==
    IF r.err # NoErr
    THEN inventoryClass(IdOf(name), r.err, NoFile)
    ELSE inventoryClass(IdOf(name), NoErr, r.st.cache[IdOf(name)])

\* Inventory.resolveNode(nodePath, filename): resolveNode(name) interpolates
inventoryResolveNode(name, r) ==
    IF r.err # NoErr
    THEN inventoryClass(NodeIdOf(name), r.err, NoFile)
    ELSE inventoryClass(NodeIdOf(name), NoErr,
                        interpolateClass(r.st.cache[NodeIdOf(name)]).class)

RECURSIVE readFiles(_, _, _, _, _)
\* the loop over the files of a directory, from file i on: classes collects
\* index.classes
readFiles(prefix, names, i, classes, st) ==
    IF i > Len(names) THEN [classes |-> classes, st |-> st]
    ELSE LET r == resolve(prefix, names[i], 0, st)
         IN readFiles(prefix, names, i + 1,
               Append(classes, IF prefix = nodesDir
                               THEN inventoryResolveNode(names[i], r)
                               ELSE inventoryResolveClass(names[i], r)),
               r.st)

\* fingerprintIndex(index): what it throws.  It reads
\* index.classes["init"].class.fingerprint whenever the directory has an init
\* class.
fingerprintIndex(prefix, classes) ==
    IF \E i \in 1..Len(classes) :
          /\ classes[i].id = prefix \o "/" \o "init"
          /\ classes[i].class = <<>>
    THEN Err(TypeErrorFingerprint, prefix)
    ELSE NoErr

\* readClasses("", "classes") and readNodes("", "nodes"): the files are
\* resolved one by one, then the index is fingerprinted
readClasses(st) ==
    readFiles(classesDir, listing(st.fs, classesDir, <<"base", "broken", "init">>),
              1, <<>>, st)
readNodes(st) ==
    readFiles(nodesDir, listing(st.fs, nodesDir, <<"db", "web">>), 1, <<>>, st)

\* loadNodes() and the rest of load(), c being what readClasses returned
loadNodes(c, n, idx) ==
    IF fingerprintIndex(nodesDir, n.classes) # NoErr
    THEN [err |-> fingerprintIndex(nodesDir, n.classes),
          index |-> [idx EXCEPT !.classes = c.classes], st |-> n.st]
    ELSE [err |-> NoErr,
          index |-> [classes |-> c.classes, nodes |-> n.classes], st |-> n.st]

\* loadClasses() and what follows, c being what the loop of readClasses left
loadClasses(c, idx) ==
    IF fingerprintIndex(classesDir, c.classes) # NoErr
    THEN [err |-> fingerprintIndex(classesDir, c.classes), index |-> idx, st |-> c.st]
    ELSE loadNodes(c, readNodes(c.st), idx)

\* Inventory.load(): [err, index, st]
load(st, idx) ==
    loadClasses(
      readClasses([st EXCEPT !.cache =
                      invalidateModified(st.cache, st.dependencyTree, st.fs,
                                         DOMAIN st.cache)]),
      idx)

----------------------------------------------------------------------------
(* The Resolver and its environment as a state machine *)

\* Inventory.index before the first load
NoIndex == [classes |-> <<>>, nodes |-> <<>>]

\* removed: the class ids an invalidation deleted from the cache
NoCall == [op |-> "none", id |-> "", error |-> NoErr, removed |-> {}]

\* ReclassDoc after start(): the first build is done, nothing is pending
WatchIdle ==
    /\ watchLock = FALSE /\ timers = 0 /\ notifications = 0
    /\ pc = "idle" /\ built = 0 /\ builds = 0

\* no call into the Resolver is in progress
CallIdle == frames = <<>>

MergeIdle ==
    /\ mTarget = EmptyParams /\ mSource = EmptyParams /\ mBefore = EmptyParams
    /\ mErr = NoError /\ mCount = 0

Init ==
    /\ files = [id \in ClassIds |->
                  IF id = IdOf("gone") THEN NoFile
                  ELSE [exists |-> TRUE, mtime |-> 1000,
                        doc |-> CHOOSE n \in ClassNames : IdOf(n) = id]]
    /\ clock = 1000
    /\ edits = 0
    /\ cache = <<>>
    /\ dependencyTree = <<>>
    /\ ret = NoCall
    /\ returned = <<>>
    /\ index = NoIndex
    /\ MergeIdle
    /\ WatchIdle
    /\ CallIdle

State == [fs |-> files, cache |-> cache, dependencyTree |-> dependencyTree]

\* a caller resolves a class: resolveClass(name)
ResolveClass(name) ==
    LET r == resolveClass(name, 0, State)
    IN /\ cache' = r.st.cache
       /\ dependencyTree' = r.st.dependencyTree
       /\ ret' = [op |-> "resolveClass", id |-> IdOf(name), error |-> r.err,
                  removed |-> {}]
       /\ UNCHANGED <<files, clock, edits>>

\* a caller invalidates a class: invalidate(classId)
Invalidate(id) ==
    /\ cache' = invalidate(cache, dependencyTree, id)
    /\ ret' = [op |-> "invalidate", id |-> id, error |-> NoErr,
               removed |-> DOMAIN cache \ DOMAIN cache']
    /\ UNCHANGED <<files, clock, edits, dependencyTree>>

\* the start of a resolution pass: invalidateModified()
InvalidateModified ==
    /\ cache' = invalidateModified(cache, dependencyTree, files, DOMAIN cache)
    /\ ret' = [op |-> "invalidateModified", id |-> "", error |-> NoErr,
               removed |-> DOMAIN cache \ DOMAIN cache']
    /\ UNCHANGED <<files, clock, edits, dependencyTree>>

\* the environment: half a second passes and a file is saved again, unchanged
TouchFile(name) ==
    /\ edits < MaxEdits
    /\ files[IdOf(name)].exists
    /\ clock' = clock + 500
    /\ edits' = edits + 1
    /\ files' = [files EXCEPT ![IdOf(name)].mtime = clock']
    /\ ret' = NoCall
    /\ UNCHANGED <<cache, dependencyTree>>

\* the environment: half a second passes and a file is deleted
RemoveFile(name) ==
    /\ edits < MaxEdits
    /\ files[IdOf(name)].exists
    /\ clock' = clock + 500
    /\ edits' = edits + 1
    /\ files' = [files EXCEPT ![IdOf(name)] = NoFile]
    /\ ret' = NoCall
    /\ UNCHANGED <<cache, dependencyTree>>

\* the environment: half a second passes and a file is created or rewritten
WriteFile(name, doc) ==
    /\ edits < MaxEdits
    /\ ~files[IdOf(name)].exists \/ files[IdOf(name)].doc # doc
    /\ clock' = clock + 500
    /\ edits' = edits + 1
    /\ files' = [files EXCEPT ![IdOf(name)] =
                    [exists |-> TRUE, mtime |-> clock', doc |-> doc]]
    /\ ret' = NoCall
    /\ UNCHANGED <<cache, dependencyTree>>

Next ==
    \/ \E name \in Requested : ResolveClass(name) /\ UNCHANGED <<returned, index, mergeVars, watchVars, frames>>
    \/ \E name \in InvalidatedByCaller : Invalidate(IdOf(name)) /\ UNCHANGED <<returned, index, mergeVars, watchVars, frames>>
    \/ InvalidateModified /\ UNCHANGED <<returned, index, mergeVars, watchVars, frames>>
    \/ \E name \in Touched : TouchFile(name) /\ UNCHANGED <<returned, index, mergeVars, watchVars, frames>>
    \/ \E name \in Removed : RemoveFile(name) /\ UNCHANGED <<returned, index, mergeVars, watchVars, frames>>
    \/ \E w \in Written : WriteFile(w[1], w[2]) /\ UNCHANGED <<returned, index, mergeVars, watchVars, frames>>

Spec == Init /\ [][Next]_vars

----------------------------------------------------------------------------
(* The mergeParams harness: a target parameter, as parseTokenParams or a    *)
(* fresh accumulator provides it, receives parameters parsed from the       *)
(* documents of successive classes, as the own-parameter merges along a     *)
(* chain of classes do.                                                     *)

MergeTokens ==
    { TokValue("s", NoComment),
      TokValue("", NoComment),
      TokSequence(<<TokValue("e1", NoComment)>>, NoComment),
      TokSequence(<<>>, NoComment),
      TokMap(<<Entry("x", TokValue("1", NoComment))>>, <<"doc of x">>),
      TokMap(<<Entry("y", TokValue("2", NoComment)),
               Entry("x", TokMap(<<Entry("z", TokValue("3", NoComment))>>, NoComment))>>,
             NoComment),
      TokMap(<<Entry("x", TokSequence(<<TokValue("e2", NoComment)>>, NoComment))>>,
             NoComment) }

\* the class whose document the n-th merged parameter comes from
MergeClass(n) ==
    CASE n = 0 -> "base" [] n = 1 -> "mid" [] n = 2 -> "top" [] OTHER -> "leaf"

MergeSources(n) ==
    { parseTokenParams(t, MergeClass(n), "CLASS") : t \in MergeTokens }
    \cup { EmptyParams }

ResolverIdle ==
    /\ files = <<>> /\ clock = 0 /\ edits = 0
    /\ cache = <<>> /\ dependencyTree = <<>> /\ ret = NoCall
    /\ returned = <<>>
    /\ index = NoIndex

MergeInit ==
    /\ mTarget \in MergeSources(0)
    /\ mSource = EmptyParams
    /\ mBefore = EmptyParams
    /\ mErr = NoError
    /\ mCount = 0
    /\ ResolverIdle
    /\ WatchIdle
    /\ CallIdle

MergeStep ==
    /\ mCount < MaxMerges
    /\ \E s \in MergeSources(mCount + 1) :
         LET r == mergeParams(mTarget, s)
         IN /\ mTarget' = r.p
            /\ mErr' = r.err
            /\ mSource' = s
            /\ mBefore' = mTarget
    /\ mCount' = mCount + 1

MergeNext == MergeStep /\ UNCHANGED <<resolverVars, watchVars, frames>>

SpecMerge == MergeInit /\ [][MergeNext]_vars

----------------------------------------------------------------------------
(* Nodes: resolveNode with and without interpolation, as a state machine *)

\* the node files the environment rewrites, and the classes nodes include
NodeWritten == { <<"web", "web small">>, <<"db", "db cycle">> }
NodeClasses == {"base"}

NodeInit ==
    /\ files = [id \in { IdOf(n) : n \in NodeClasses } \cup NodeIds |->
                  [exists |-> TRUE, mtime |-> 1000,
                   doc |-> CHOOSE n \in NodeClasses \cup NodeNames :
                              id \in {IdOf(n), NodeIdOf(n)}]]
    /\ clock = 1000
    /\ edits = 0
    /\ cache = <<>>
    /\ dependencyTree = <<>>
    /\ ret = NoCall
    /\ returned = <<>>
    /\ index = NoIndex
    /\ MergeIdle
    /\ WatchIdle
    /\ CallIdle

\* a caller resolves a node: resolveNode(name, interpolate).  A call whose
\* interpolation never ends does not return and leaves no state behind.
ResolveNode(name, interpolate) ==
    LET r == resolve(nodesDir, name, 0, State)
        n == interpolateClass(r.st.cache[NodeIdOf(name)])
    IN /\ dependencyTree' = r.st.dependencyTree
       /\ ret' = [op |-> "resolveNode", id |-> NodeIdOf(name), error |-> r.err,
                  removed |-> {}]
       /\ IF r.err # NoErr
          THEN cache' = r.st.cache /\ returned' = <<>>
          ELSE IF ~interpolate
          THEN cache' = r.st.cache /\ returned' = <<r.st.cache[NodeIdOf(name)]>>
          ELSE /\ ~n.diverges
               /\ cache' = [r.st.cache EXCEPT ![NodeIdOf(name)] = n.rClass]
               /\ returned' = <<n.class>>
       /\ UNCHANGED <<files, clock, edits>>

\* the environment: half a second passes and a node file is rewritten
WriteNode(name, doc) ==
    /\ edits < MaxEdits
    /\ files[NodeIdOf(name)].doc # doc
    /\ clock' = clock + 500
    /\ edits' = edits + 1
    /\ files' = [files EXCEPT ![NodeIdOf(name)] =
                    [exists |-> TRUE, mtime |-> clock', doc |-> doc]]
    /\ ret' = NoCall
    /\ UNCHANGED <<cache, dependencyTree>>

NodeNext ==
    \/ \E name \in NodeNames, interpolate \in BOOLEAN :
          ResolveNode(name, interpolate) /\ UNCHANGED <<index, mergeVars, watchVars, frames>>
    \/ \E name \in NodeClasses : ResolveClass(name) /\ UNCHANGED <<returned, index, mergeVars, watchVars, frames>>
    \/ InvalidateModified /\ UNCHANGED <<returned, index, mergeVars, watchVars, frames>>
    \/ \E name \in NodeClasses : TouchFile(name) /\ UNCHANGED <<returned, index, mergeVars, watchVars, frames>>
    \/ \E w \in NodeWritten : WriteNode(w[1], w[2]) /\ UNCHANGED <<returned, index, mergeVars, watchVars, frames>>

SpecNode == NodeInit /\ [][NodeNext]_vars

----------------------------------------------------------------------------
(* ReclassDoc.watch, watchTrigger and build on the event loop *)

\* callbacks one change of a file makes fs.watch queue
EventsPerChange == {1, 2}

\* the environment: a file under the watched directory changes, at any time,
\* also while build() runs; fs.watch queues its callback
FileChanges(n) ==
    /\ edits < MaxChanges
    /\ edits' = edits + 1
    /\ notifications' = notifications + n
    /\ UNCHANGED <<watchLock, timers, pc, built, builds>>

\* the event loop runs a queued fs.watch callback: watchTrigger() returns at
\* once when the lock is held, else takes the lock, arms the timer and
\* enters build()
WatchTrigger ==
    /\ pc = "idle"
    /\ notifications > 0
    /\ notifications' = notifications - 1
    /\ IF watchLock
       THEN UNCHANGED <<watchLock, timers, pc, builds>>
       ELSE /\ watchLock' = TRUE
            /\ timers' = timers + 1
            /\ pc' = "loading"
            /\ builds' = builds + 1
    /\ UNCHANGED <<edits, built>>

\* build(): inventory.load() reads the files as they are now
Load ==
    /\ pc = "loading"
    /\ built' = edits
    /\ pc' = "rendering"
    /\ UNCHANGED <<edits, watchLock, timers, notifications, builds>>

\* build(): the render is done, "build" and "watchChange" are emitted and
\* watchTrigger returns to the event loop
Render ==
    /\ pc = "rendering"
    /\ pc' = "idle"
    /\ UNCHANGED <<edits, watchLock, timers, notifications, built, builds>>

\* the event loop runs the callback of setTimeout(..., 1)
ReleaseLock ==
    /\ pc = "idle"
    /\ timers > 0
    /\ timers' = timers - 1
    /\ watchLock' = FALSE
    /\ UNCHANGED <<edits, notifications, pc, built, builds>>

WatchInit ==
    /\ files = <<>> /\ clock = 0 /\ edits = 0
    /\ cache = <<>> /\ dependencyTree = <<>> /\ ret = NoCall
    /\ returned = <<>>
    /\ index = NoIndex
    /\ MergeIdle
    /\ WatchIdle
    /\ CallIdle

watchIdleVars ==
    <<files, clock, cache, dependencyTree, ret, returned, index, mergeVars, frames>>

WatchNext ==
    \/ \E n \in EventsPerChange : FileChanges(n) /\ UNCHANGED watchIdleVars
    \/ WatchTrigger /\ UNCHANGED watchIdleVars
    \/ Load /\ UNCHANGED watchIdleVars
    \/ Render /\ UNCHANGED watchIdleVars
    \/ ReleaseLock /\ UNCHANGED watchIdleVars

SpecWatch == WatchInit /\ [][WatchNext]_vars

----------------------------------------------------------------------------
(* Inventory.load over a reclass directory, as a state machine *)

\* the reclass directory: classes base, broken (an empty file) and init,
\* nodes db and web
LoadClasses == {"base", "broken", "init"}
LoadWritten == { <<"init", "empty">>, <<"init", "init">>, <<"broken", "gone">> }
LoadNodesWritten ==
    { <<"web", "web small">>, <<"web", "empty">>,
      <<"web", "web base init">>, <<"web", "web init base">> }

LoadInit ==
    /\ files = [id \in { IdOf(n) : n \in LoadClasses } \cup NodeIds |->
                  [exists |-> TRUE, mtime |-> 1000,
                   doc |-> IF id = IdOf("broken") THEN "empty"
                           ELSE CHOOSE n \in LoadClasses \cup NodeNames :
                                   id \in {IdOf(n), NodeIdOf(n)}]]
    /\ clock = 1000
    /\ edits = 0
    /\ cache = <<>>
    /\ dependencyTree = <<>>
    /\ ret = NoCall
    /\ returned = <<>>
    /\ index = NoIndex
    /\ MergeIdle
    /\ WatchIdle
    /\ CallIdle

\* a build loads the inventory: Inventory.load()
InventoryLoad ==
    LET r == load(State, index)
    IN /\ cache' = r.st.cache
       /\ dependencyTree' = r.st.dependencyTree
       /\ index' = r.index
       /\ ret' = [op |-> "load", id |-> "", error |-> r.err, removed |-> {}]
       /\ UNCHANGED <<files, clock, edits, returned>>

LoadNext ==
    \/ InventoryLoad /\ UNCHANGED <<mergeVars, watchVars, frames>>
    \/ \E w \in LoadWritten : WriteFile(w[1], w[2]) /\ UNCHANGED <<returned, index, mergeVars, watchVars, frames>>
    \/ \E w \in LoadNodesWritten : WriteNode(w[1], w[2]) /\ UNCHANGED <<returned, index, mergeVars, watchVars, frames>>
    \/ \E name \in NodeClasses : TouchFile(name) /\ UNCHANGED <<returned, index, mergeVars, watchVars, frames>>

SpecLoad == LoadInit /\ [][LoadNext]_vars

----------------------------------------------------------------------------
(* The Resolver over include graphs: a diamond (dia over mid and side, both *)
(* over base), a parent without parameters (uses over apps), a class that   *)
(* fails after its parents were processed (late), a cycle (ping, pong) and  *)
(* a chain deeper than the depth limit (over, dia, mid, base)               *)

GraphRequested == {"dia", "over", "uses", "late", "ping"}
GraphInvalidated == {"base", "ping"}
GraphTouched == {"base"}
GraphWritten == { <<"late", "late parameters">> }

GraphInit ==
    /\ files = [id \in { IdOf(n) : n \in GraphClasses } |->
                  [exists |-> TRUE, mtime |-> 1000,
                   doc |-> CHOOSE n \in GraphClasses : IdOf(n) = id]]
    /\ clock = 1000
    /\ edits = 0
    /\ cache = <<>>
    /\ dependencyTree = <<>>
    /\ ret = NoCall
    /\ returned = <<>>
    /\ index = NoIndex
    /\ MergeIdle
    /\ WatchIdle
    /\ CallIdle

GraphNext ==
    \/ \E name \in GraphRequested : ResolveClass(name) /\ UNCHANGED <<returned, index, mergeVars, watchVars, frames>>
    \/ \E name \in GraphInvalidated : Invalidate(IdOf(name)) /\ UNCHANGED <<returned, index, mergeVars, watchVars, frames>>
    \/ InvalidateModified /\ UNCHANGED <<returned, index, mergeVars, watchVars, frames>>
    \/ \E name \in GraphTouched : TouchFile(name) /\ UNCHANGED <<returned, index, mergeVars, watchVars, frames>>
    \/ \E w \in GraphWritten : WriteFile(w[1], w[2]) /\ UNCHANGED <<returned, index, mergeVars, watchVars, frames>>

SpecGraph == GraphInit /\ [][GraphNext]_vars

----------------------------------------------------------------------------
(* The four operations of the Resolver together: a node over a chain (mid   *)
(* over base) and a cycle (ping, pong), resolved, invalidated and changed   *)

ClosureClasses == {"base", "mid", "ping", "pong"}
ClosureNodes == {"web"}
ClosureRequested == {"mid"}
ClosureInvalidated == {"base", "pong"}
ClosureTouched == {"base"}
ClosureRemoved == {"mid"}

ClosureInit ==
    /\ files = [id \in { IdOf(n) : n \in ClosureClasses }
                        \cup { NodeIdOf(n) : n \in ClosureNodes } |->
                  [exists |-> TRUE, mtime |-> 1000,
                   doc |-> IF id = NodeIdOf("web") THEN "web mid ping"
                           ELSE CHOOSE n \in ClosureClasses : IdOf(n) = id]]
    /\ clock = 1000
    /\ edits = 0
    /\ cache = <<>>
    /\ dependencyTree = <<>>
    /\ ret = NoCall
    /\ returned = <<>>
    /\ index = NoIndex
    /\ MergeIdle
    /\ WatchIdle
    /\ CallIdle

ClosureNext ==
    \/ \E name \in ClosureNodes, interpolate \in BOOLEAN :
          ResolveNode(name, interpolate) /\ UNCHANGED <<index, mergeVars, watchVars, frames>>
    \/ \E name \in ClosureRequested : ResolveClass(name) /\ UNCHANGED <<returned, index, mergeVars, watchVars, frames>>
    \/ \E name \in ClosureInvalidated : Invalidate(IdOf(name)) /\ UNCHANGED <<returned, index, mergeVars, watchVars, frames>>
    \/ InvalidateModified /\ UNCHANGED <<returned, index, mergeVars, watchVars, frames>>
    \/ \E name \in ClosureTouched : TouchFile(name) /\ UNCHANGED <<returned, index, mergeVars, watchVars, frames>>
    \/ \E name \in ClosureRemoved : RemoveFile(name) /\ UNCHANGED <<returned, index, mergeVars, watchVars, frames>>

SpecClosure == ClosureInit /\ [][ClosureNext]_vars

----------------------------------------------------------------------------
(* The calls of the Resolver frame by frame: resolve and invalidate call    *)
(* themselves, and a call runs to its end before anything else happens.     *)
(* frames holds the activations, the innermost last.                        *)

CallClasses == {"base", "mid", "ping", "pong"}
CallNodes == {"web", "db"}
CallRequested == {"ping"}
CallInvalidated == {"base", "pong"}

\* a new activation of op for the class `name` at the given depth; st0 is
\* the Resolver's state when it is entered
CallFrame(op, prefix, name, depth, interpolate) ==
    [op |-> op, prefix |-> prefix, name |-> name, depth |-> depth,
     interpolate |-> interpolate, phase |-> "enter",
     rc |-> newClass(prefix, name, NoFile), names |-> <<>>, i |-> 1,
     st0 |-> State]

\* the activation running now
top == frames[Len(frames)]

\* the class id the activation f works on
frameId(f) == IF f.op = "invalidate" THEN f.name ELSE f.prefix \o "/" \o f.name

\* the start of resolve, up to the loop over `classes`: "raise" with the
\* error thrown, "return" for a cache hit, "loop" when the class instance is
\* prepared
enter(prefix, name, depth, st) ==
    IF depth > depthLimit
    THEN [kind |-> "raise", err |-> Err(DepthExceeded, prefix \o "/" \o name)]
    ELSE IF (prefix \o "/" \o name) \in DOMAIN st.cache
    THEN [kind |-> "return", err |-> NoErr]
    ELSE IF ~st.fs[prefix \o "/" \o name].exists
    THEN [kind |-> "raise", err |-> Err(FileNotFound, prefix \o "/" \o name)]
    ELSE IF Content(st.fs[prefix \o "/" \o name].doc).state = "malformed"
    THEN [kind |-> "raise", err |-> Err(ParseFailed, prefix \o "/" \o name)]
    ELSE IF Content(st.fs[prefix \o "/" \o name].doc).state = "empty"
    THEN [kind |-> "raise", err |-> Err(FileEmpty, prefix \o "/" \o name)]
    ELSE IF /\ Content(st.fs[prefix \o "/" \o name].doc).classes.present
            /\ Content(st.fs[prefix \o "/" \o name].doc).classes.type # "SEQUENCE"
    THEN [kind |-> "raise", err |-> Err(ClassesNotSequence, prefix \o "/" \o name)]
    ELSE [kind |-> "loop", err |-> NoErr]

\* the activation `top` of resolve ends with r = [err, st]: the outermost
\* one returns to the caller of the Resolver (resolveNode goes on to
\* interpolate), an inner one returns into the try block of its caller
Deliver(r) ==
    IF Len(frames) = 1
    THEN /\ cache' = r.st.cache
         /\ dependencyTree' = r.st.dependencyTree
         /\ IF top.prefix = nodesDir /\ top.interpolate /\ r.err = NoErr
            THEN /\ frames' = <<[top EXCEPT !.phase = "interpolate"]>>
                 /\ UNCHANGED <<ret, returned>>
            ELSE /\ frames' = <<>>
                 /\ ret' = [op |-> IF top.prefix = nodesDir THEN "resolveNode"
                                   ELSE "resolveClass",
                            id |-> frameId(top), error |-> r.err, removed |-> {}]
                 /\ returned' = IF top.prefix # nodesDir THEN returned
                                ELSE IF r.err # NoErr THEN <<>>
                                ELSE <<r.st.cache[frameId(top)]>>
    ELSE LET g == frames[Len(frames) - 1]
             p == includeParent(g.rc, g.names[g.i], r)
         IN /\ frames' = [SubSeq(frames, 1, Len(frames) - 1) EXCEPT
                             ![Len(frames) - 1] = [g EXCEPT !.rc = p.rc, !.i = @ + 1]]
            /\ cache' = p.st.cache
            /\ dependencyTree' = p.st.dependencyTree
            /\ UNCHANGED <<ret, returned>>

\* a caller asks for a class, a node, or invalidates a class
CallResolveClass(name) ==
    /\ frames = <<>>
    /\ frames' = <<CallFrame("resolve", classesDir, name, 0, FALSE)>>
    /\ UNCHANGED <<files, clock, edits, cache, dependencyTree, ret, returned>>

CallResolveNode(name, interpolate) ==
    /\ frames = <<>>
    /\ frames' = <<CallFrame("resolve", nodesDir, name, 0, interpolate)>>
    /\ UNCHANGED <<files, clock, edits, cache, dependencyTree, ret, returned>>

CallInvalidate(id) ==
    /\ frames = <<>>
    /\ frames' = <<CallFrame("invalidate", "", id, 0, FALSE)>>
    /\ UNCHANGED <<files, clock, edits, cache, dependencyTree, ret, returned>>

\* resolve, from its first line to the loop over `classes`
ResolveEnter ==
    /\ frames # <<>> /\ top.op = "resolve" /\ top.phase = "enter"
    /\ IF enter(top.prefix, top.name, top.depth, State).kind = "loop"
       THEN /\ frames' = [frames EXCEPT ![Len(frames)] =
                            [@ EXCEPT !.phase = "loop",
                                      !.rc = newClass(top.prefix, top.name,
                                                      files[frameId(top)]),
                                      !.names = Content(files[frameId(top)].doc).classes.names]]
            /\ UNCHANGED <<cache, dependencyTree, ret, returned>>
       ELSE Deliver([err |-> enter(top.prefix, top.name, top.depth, State).err,
                     st |-> State])
    /\ UNCHANGED <<files, clock, edits>>

\* a turn of the loop for a name the class has listed before: continue
ResolveSkip ==
    /\ frames # <<>> /\ top.op = "resolve" /\ top.phase = "loop"
    /\ top.i <= Len(top.names)
    /\ \E k \in 1..Len(top.rc.resolvedClasses) : top.rc.resolvedClasses[k] = top.names[top.i]
    /\ frames' = [frames EXCEPT ![Len(frames)].i = @ + 1]
    /\ UNCHANGED <<files, clock, edits, cache, dependencyTree, ret, returned>>

\* a turn of the loop: this.resolveClass(name, depth + 1)
ResolveDescend ==
    /\ frames # <<>> /\ top.op = "resolve" /\ top.phase = "loop"
    /\ top.i <= Len(top.names)
    /\ \A k \in 1..Len(top.rc.resolvedClasses) : top.rc.resolvedClasses[k] # top.names[top.i]
    /\ Len(frames) < MaxStack
    /\ frames' = Append([frames EXCEPT ![Len(frames)].rc.resolvedClasses =
                                         Append(@, top.names[top.i])],
                        CallFrame("resolve", classesDir, top.names[top.i],
                                  top.depth + 1, FALSE))
    /\ UNCHANGED <<files, clock, edits, cache, dependencyTree, ret, returned>>

\* after the loop: applications, parameters, fingerprint, cache, return
ResolveLeave ==
    /\ frames # <<>> /\ top.op = "resolve" /\ top.phase = "loop"
    /\ top.i > Len(top.names)
    /\ Deliver(addOwn([rc |-> top.rc, st |-> State], Content(files[frameId(top)].doc)))
    /\ UNCHANGED <<files, clock, edits>>

\* resolveNode: interpolateClass(rClass).  When the loop of
\* parseInterpolation never ends the activation never leaves.
Interpolate ==
    /\ frames # <<>> /\ top.op = "resolve" /\ top.phase = "interpolate"
    /\ ~interpolateClass(cache[frameId(top)]).diverges
    /\ frames' = <<>>
    /\ cache' = [cache EXCEPT ![frameId(top)] = interpolateClass(@).rClass]
    /\ returned' = <<interpolateClass(cache[frameId(top)]).class>>
    /\ ret' = [op |-> "resolveNode", id |-> frameId(top), error |-> NoErr,
               removed |-> {}]
    /\ UNCHANGED <<files, clock, edits, dependencyTree>>

\* a variant of recurses that follows every edge
recursesAlways(c, id) == TRUE

\* `if(this.cache[this.dependencyTree[classId][i]])`: invalidate calls itself
\* for the dependant id only when it is cached
recurses(c, id) == id \in DOMAIN c

\* invalidate: delete the id from the cache, then look at its dependants
InvalidateEnter ==
    /\ frames # <<>> /\ top.op = "invalidate" /\ top.phase = "enter"
    /\ cache' = [k \in DOMAIN cache \ {top.name} |-> cache[k]]
    /\ frames' = [frames EXCEPT ![Len(frames)] =
                     [@ EXCEPT !.phase = "loop",
                               !.names = IF top.name \in DOMAIN dependencyTree
                                         THEN dependencyTree[top.name] ELSE <<>>]]
    /\ UNCHANGED <<files, clock, edits, dependencyTree, ret, returned>>

\* a turn of the loop over the dependants: the dependant is not cached
InvalidateSkip ==
    /\ frames # <<>> /\ top.op = "invalidate" /\ top.phase = "loop"
    /\ top.i <= Len(top.names)
    /\ ~recurses(cache, top.names[top.i])
    /\ frames' = [frames EXCEPT ![Len(frames)].i = @ + 1]
    /\ UNCHANGED <<files, clock, edits, cache, dependencyTree, ret, returned>>

\* a turn of the loop over the dependants: this.invalidate(dependant)
InvalidateDescend ==
    /\ frames # <<>> /\ top.op = "invalidate" /\ top.phase = "loop"
    /\ top.i <= Len(top.names)
    /\ recurses(cache, top.names[top.i])
    /\ Len(frames) < MaxStack
    /\ frames' = Append([frames EXCEPT ![Len(frames)].i = @ + 1],
                        CallFrame("invalidate", "", top.names[top.i],
                                  top.depth + 1, FALSE))
    /\ UNCHANGED <<files, clock, edits, cache, dependencyTree, ret, returned>>

\* the end of invalidate
InvalidateLeave ==
    /\ frames # <<>> /\ top.op = "invalidate" /\ top.phase = "loop"
    /\ top.i > Len(top.names)
    /\ frames' = SubSeq(frames, 1, Len(frames) - 1)
    /\ ret' = IF Len(frames) > 1 THEN ret
              ELSE [op |-> "invalidate", id |-> top.name, error |-> NoErr,
                    removed |-> DOMAIN top.st0.cache \ DOMAIN cache]
    /\ UNCHANGED <<files, clock, edits, cache, dependencyTree, returned>>

\* the call of invalidate in progress takes its next step
InvalidateStep ==
    /\ \/ InvalidateEnter \/ InvalidateSkip \/ InvalidateDescend \/ InvalidateLeave
    /\ UNCHANGED <<index, mergeVars, watchVars>>

CallInit ==
    /\ files = [id \in { IdOf(n) : n \in CallClasses }
                        \cup { NodeIdOf(n) : n \in CallNodes } |->
                  [exists |-> TRUE, mtime |-> 1000,
                   doc |-> IF id = NodeIdOf("web") THEN "web mid ping mid"
                           ELSE IF id = NodeIdOf("db") THEN "db cycle"
                           ELSE CHOOSE n \in CallClasses : IdOf(n) = id]]
    /\ clock = 1000
    /\ edits = 0
    /\ cache = <<>>
    /\ dependencyTree = <<>>
    /\ ret = NoCall
    /\ returned = <<>>
    /\ index = NoIndex
    /\ MergeIdle
    /\ WatchIdle
    /\ CallIdle

CallNext ==
    \/ \E name \in CallRequested : CallResolveClass(name) /\ UNCHANGED <<index, mergeVars, watchVars>>
    \/ \E name \in CallNodes, interpolate \in BOOLEAN :
          CallResolveNode(name, interpolate) /\ UNCHANGED <<index, mergeVars, watchVars>>
    \/ \E name \in CallInvalidated : CallInvalidate(IdOf(name)) /\ UNCHANGED <<index, mergeVars, watchVars>>
    \/ ResolveEnter /\ UNCHANGED <<index, mergeVars, watchVars>>
    \/ ResolveSkip /\ UNCHANGED <<index, mergeVars, watchVars>>
    \/ ResolveDescend /\ UNCHANGED <<index, mergeVars, watchVars>>
    \/ ResolveLeave /\ UNCHANGED <<index, mergeVars, watchVars>>
    \/ Interpolate /\ UNCHANGED <<index, mergeVars, watchVars>>
    \/ InvalidateEnter /\ UNCHANGED <<index, mergeVars, watchVars>>
    \/ InvalidateSkip /\ UNCHANGED <<index, mergeVars, watchVars>>
    \/ InvalidateDescend /\ UNCHANGED <<index, mergeVars, watchVars>>
    \/ InvalidateLeave /\ UNCHANGED <<index, mergeVars, watchVars>>

\* JavaScript runs a call to completion: an activation of invalidate that
\* can take its next step takes it.  (Nothing is assumed of the activations
\* of resolve: what is claimed of them is stated without fairness.)
SpecCall == CallInit /\ [][CallNext]_vars /\ WF_vars(InvalidateStep)

----------------------------------------------------------------------------
(* Properties of mergeParams, checked under SpecMerge *)

\* the value a parameter holds, apart from its declared type and its history
valueOf(p) == [kind |-> p.kind, str |-> p.str, seq |-> p.seq, map |-> p.map]

\* the last merge was dispatched to the REPLACE branch
Replaced ==
    /\ mCount > 0
    /\ ~(mBefore.type = "MAP" /\ mSource.type = "MAP")
    /\ ~(mBefore.type = "SEQUENCE" /\ mSource.type = "SEQUENCE")

\* C1: whenever target and source are not both MAP or both SEQUENCE,
\* mergeParams performs a full replace: afterwards the target's value and the
\* target's type equal the source's.
C1_ReplaceSetsValueAndType ==
    (Replaced /\ mErr = NoError)
        => /\ valueOf(mTarget) = valueOf(clone(mSource))
           /\ mTarget.type = mSource.type

\* a replace that returned normally (the value part of C1 does hold)
C1_ReplacedValue ==
    (Replaced /\ mErr = NoError) => valueOf(mTarget) = valueOf(clone(mSource))

\* the names `for ... in` finds on a value: the keys of an object, the
\* indices and the string-keyed properties of an Array, the indices of a
\* primitive string
ownKeys(p) ==
    CASE p.kind = "object" -> { p.map[i].key : i \in 1..Len(p.map) }
      [] p.kind = "array"  -> { StringOf(i - 1) : i \in 1..Len(p.seq) }
                              \cup { p.map[i].key : i \in 1..Len(p.map) }
      [] p.kind = "string" -> { StringOf(i - 1) : i \in 1..Len(p.str) }

\* the last merge was dispatched to the MAP branch
MergedMaps == mCount > 0 /\ mBefore.type = "MAP" /\ mSource.type = "MAP"

\* C10: mergeParams with both parameters of type MAP never removes a key:
\* afterwards the target's key set is exactly the union of its previous key
\* set and the source's key set.
C10_KeysAreUnion ==
    MergedMaps => ownKeys(mTarget) = ownKeys(mBefore) \cup ownKeys(mSource)

\* no key is ever removed by the MAP branch (this part of C10 does hold)
C10_NoKeyRemoved == MergedMaps => ownKeys(mBefore) \subseteq ownKeys(mTarget)

----------------------------------------------------------------------------
(* Properties of resolve, checked under Spec *)

\* resolveClass has just returned or thrown
Resolved == ret.op = "resolveClass"
\* resolveClass has just returned a class (the cached one)
Returned == Resolved /\ ret.error = NoErr

\* the document behind a class id, as the files are now
DocOf(id) == Content(files[id].doc)

RECURSIVE holdsOwn(_, _)
\* the resolved parameter p holds what the token tok of the class's own
\* document declares: the scalar itself, the declared elements at the end of
\* a sequence, and every declared entry of a map
holdsOwn(p, tok) ==
    CASE tok.type = "VALUE" -> p.kind = "string" /\ p.str = tok.str
      [] tok.type = "SEQUENCE" ->
            /\ p.kind = "array"
            /\ Len(p.seq) >= Len(tok.seq)
            /\ \A i \in 1..Len(tok.seq) :
                  holdsOwn(p.seq[Len(p.seq) - Len(tok.seq) + i], tok.seq[i])
      [] tok.type = "MAP" ->
            /\ p.kind = "object"
            /\ \A i \in 1..Len(tok.map) :
                  /\ IndexOfKey(p.map, tok.map[i].key) > 0
                  /\ holdsOwn(p.map[IndexOfKey(p.map, tok.map[i].key)].val,
                              tok.map[i].val)

\* the class asked for has a well-formed document with a `parameters` map
OwnParametersDeclared ==
    /\ Resolved
    /\ files[ret.id].exists
    /\ DocOf(ret.id).state = "ok"
    /\ DocOf(ret.id).parameters.present
    /\ DocOf(ret.id).parameters.type = "MAP"

\* C2: at every key path at which a class's own `parameters` declare a
\* value, the resolved tree holds the class's own value, whatever the parents
\* declare there, and resolution does not fail because of what was inherited.
C2_OwnParametersWin ==
    OwnParametersDeclared
        => /\ ret.error = NoErr
           /\ holdsOwn(cache[ret.id].params, DocOf(ret.id).parameters.tok)

\* when the class is returned, its own declarations are in its tree (this
\* part of C2 does hold)
C2_OwnParametersWinWhenReturned ==
    (OwnParametersDeclared /\ Returned)
        => holdsOwn(cache[ret.id].params, DocOf(ret.id).parameters.tok)

RECURSIVE leafPaths(_)
\* the key paths of the leaves a token declares (a scalar or a sequence is
\* a leaf; an empty map declares none)
leafPaths(tok) ==
    IF tok.type = "MAP"
    THEN UNION { { <<tok.map[i].key>> \o path : path \in leafPaths(tok.map[i].val) } :
                 i \in 1..Len(tok.map) }
    ELSE { <<>> }

RECURSIVE hasPath(_, _)
\* the resolved parameter p has a value at the key path
hasPath(p, path) ==
    \/ path = <<>>
    \/ /\ p.kind # "string"
       /\ IndexOfKey(p.map, Head(path)) > 0
       /\ hasPath(p.map[IndexOfKey(p.map, Head(path))].val, Tail(path))

\* the leaves the document of class id declares under `parameters`
declaredLeaves(id) ==
    IF DocOf(id).parameters.present /\ DocOf(id).parameters.type = "MAP"
    THEN leafPaths(DocOf(id).parameters.tok)
    ELSE {}

\* the scalar a token declares at the key `key` of its root map, if any
declaresScalar(tok, key) ==
    /\ IndexOfKey(tok.map, key) > 0
    /\ tok.map[IndexOfKey(tok.map, key)].val.type = "VALUE"

\* the dependency records of parents that were resolved and merged
mergedParents(records) ==
    { i \in 1..Len(records) : records[i].error = NoErr }

\* C3: for classes A including B including C, all three resolvable, the
\* resolved tree of A contains every leaf declared anywhere in B or C, and a
\* scalar key declared in A keeps A's own value.
C3_TreeContainsAncestorsLeaves ==
    Returned =>
        \A b \in mergedParents(cache[ret.id].classes) :
          \A c \in mergedParents(cache[ret.id].classes[b].classes) :
            LET A == cache[ret.id]
                B == A.classes[b]
                C == B.classes[c]
            IN (files[A.id].exists /\ files[B.id].exists /\ files[C.id].exists)
                 => /\ \A path \in declaredLeaves(B.id) \cup declaredLeaves(C.id) :
                          hasPath(A.params, path)
                    /\ \A i \in 1..Len(DocOf(A.id).parameters.tok.map) :
                          LET e == DocOf(A.id).parameters.tok.map[i]
                          IN e.val.type = "VALUE"
                               => holdsOwn(A.params.map[IndexOfKey(A.params.map, e.key)].val,
                                           e.val)

RECURSIVE depthExceededBelow(_)
\* some dependency record, at any level below, carries the depth error
depthExceededBelow(records) ==
    \E i \in 1..Len(records) :
        \/ records[i].error.message = DepthExceeded
        \/ depthExceededBelow(records[i].classes)

\* C4: when the depth limit is exceeded anywhere below a top-level request,
\* the request itself fails with the depth error; the error is not absorbed
\* into a dependency record with the top-level class still returned.
C4_DepthErrorIsFatal ==
    Returned => ~depthExceededBelow(cache[ret.id].classes)

----------------------------------------------------------------------------
(* Properties of invalidate and invalidateModified, checked under Spec *)

\* the ids recorded in dependencyTree as depending on id
edgesOf(tree, id) ==
    IF id \in DOMAIN tree THEN { tree[id][i] : i \in 1..Len(tree[id]) } ELSE {}

RECURSIVE reach(_, _, _)
\* the ids reachable from the set S along dependency edges, passing only
\* through ids of the set dom
reach(tree, dom, S) ==
    LET N == S \cup { b \in dom : \E a \in S : b \in edgesOf(tree, a) }
    IN IF N = S THEN S ELSE reach(tree, dom, N)

\* invalidate(X) has just returned
Invalidated == ret.op = "invalidate"

\* C5 as stated: after invalidate(X), neither X nor any id reachable from X
\* along dependency edges is in the cache.
C5_NoReachableIdCached ==
    Invalidated => reach(dependencyTree, ClassIds, {ret.id}) \cap DOMAIN cache = {}

\* C5, amended: invalidate(X) removes X and exactly the cached ids reachable
\* from X along dependency edges through ids that were cached when the call
\* began; an id reachable only through an id that is not cached stays.
C5_ReachableThroughCachedRemoved ==
    Invalidated =>
        /\ ret.id \notin DOMAIN cache
        /\ ret.removed =
              (DOMAIN cache \cup ret.removed)
                 \cap reach(dependencyTree, DOMAIN cache \cup ret.removed, {ret.id})

\* invalidate(/classes/base) has cascaded through mid to top
C5_Cascaded ==
    /\ Invalidated
    /\ ret.id = IdOf("base")
    /\ ret.removed = {IdOf("base"), IdOf("mid"), IdOf("top")}

\* invalidateModified() is returning (a step of the action)
InvalidatingModified == ret'.op = "invalidateModified"

\* the file behind the cached class rc is missing, or its modification time
\* is not the one stored when rc was resolved
fileChanged(fs, rc) ==
    \/ ~fs[rc.filename].exists
    \/ fs[rc.filename].mtime # rc.modified

\* the cached classes whose file is missing or modified
modifiedClasses(c, fs) == { id \in DOMAIN c : fileChanged(fs, c[id]) }

RECURSIVE mergedAncestors(_)
\* the ids of the parents merged, at any level, as the dependency records
\* of a class tell
mergedAncestors(records) ==
    UNION { {records[i].id} \cup mergedAncestors(records[i].classes) :
            i \in mergedParents(records) }

RECURSIVE recordedIds(_)
\* the ids of all dependency records of a class, at any level
recordedIds(records) ==
    UNION { {records[i].id} \cup recordedIds(records[i].classes) :
            i \in 1..Len(records) }

\* nothing happened to the file of class id since the cache saw it: a cached
\* class is unmodified, a parent that failed for want of a file has none
untouched(c, fs, id) ==
    IF id \in DOMAIN c THEN ~fileChanged(fs, c[id]) ELSE ~fs[id].exists

\* after invalidateModified no cached class is missing or modified, and none
\* merged, at any level, a parent that is
NoStaleClassCached(c, fs) ==
    \A id \in DOMAIN c :
        /\ ~fileChanged(fs, c[id])
        /\ \A a \in mergedAncestors(c[id].classes) :
              a \in DOMAIN c /\ ~fileChanged(fs, c[a])

\* C6 as stated: after invalidateModified() the cache holds no class whose
\* file is missing or modified and no class that merged such a class, and
\* the classes whose own file and all ancestors' files are untouched stay
\* cached.
C6_ExactlyStaleClassesRemoved ==
    [][InvalidatingModified =>
          /\ NoStaleClassCached(cache', files)
          /\ \A id \in DOMAIN cache :
                ( /\ untouched(cache, files, id)
                  /\ \A a \in recordedIds(cache[id].classes) :
                        untouched(cache, files, a) )
                   => id \in DOMAIN cache']_vars

\* C6, amended: after invalidateModified() the cache holds no class whose
\* file is missing or modified and no class that merged such a class; what
\* is removed is exactly what is reachable from a missing or modified cached
\* class along dependency edges through cached ids, whether or not the edge
\* still stands for an include.
C6_StaleClassesAndDependantsRemoved ==
    [][InvalidatingModified =>
          /\ NoStaleClassCached(cache', files)
          /\ DOMAIN cache' =
                DOMAIN cache \ reach(dependencyTree, DOMAIN cache,
                                     modifiedClasses(cache, files))
          /\ \A id \in DOMAIN cache' : cache'[id] = cache[id]]_vars

\* invalidateModified() found base saved again and removed it with its
\* dependants mid and top
C6_TouchedBaseCascaded ==
    /\ ret.op = "invalidateModified"
    /\ files[IdOf("base")].mtime > 1000
    /\ ret.removed = {IdOf("base"), IdOf("mid"), IdOf("top")}

----------------------------------------------------------------------------
(* Properties of a resolution pass after a file change, checked under Spec *)

\* a file of the reclass directory is changing (a step of the environment)
FileChanging == edits' = edits + 1

\* the pass a driver makes once the files are fs: invalidateModified(), then
\* resolveClass(name)
passAfter(name, fs) ==
    resolveClass(name, 0,
        [fs |-> fs,
         cache |-> invalidateModified(cache, dependencyTree, fs, DOMAIN cache),
         dependencyTree |-> dependencyTree])

\* class id resolves when the files are fs and nothing is cached
resolvable(id, fs) ==
    resolve(classesDir, CHOOSE n \in ClassNames : IdOf(n) = id, 0,
            [fs |-> fs, cache |-> <<>>, dependencyTree |-> <<>>]).err = NoErr

\* the dependency record rc keeps for the parent pid carries no error, and
\* every leaf the document doc declares is in the tree of rc
parentIncluded(rc, pid, doc) ==
    /\ \E j \in 1..Len(rc.classes) :
          rc.classes[j].id = pid /\ rc.classes[j].error = NoErr
    /\ \A path \in leafPaths(doc.parameters.tok) : hasPath(rc.params, path)

\* C7: if C was cached while its declared parent P failed to resolve, and
\* P's document becomes resolvable while C's own file is untouched, the next
\* pass (invalidateModified, then resolving C) returns a C whose record for
\* P carries no error and whose tree includes P's parameters.
C7_StaleErrorNotServed ==
    [][FileChanging =>
          \A name \in Requested :
            LET id == IdOf(name)
            IN ( /\ id \in DOMAIN cache
                 /\ ~fileChanged(files', cache[id]) )
               => \A i \in 1..Len(cache[id].classes) :
                    LET P == cache[id].classes[i]
                    IN ( /\ P.error # NoErr
                         /\ P.error.classId = P.id
                         /\ ~resolvable(P.id, files)
                         /\ resolvable(P.id, files') )
                       => /\ passAfter(name, files').err = NoErr
                          /\ parentIncluded(passAfter(name, files').st.cache[id],
                                            P.id, Content(files'[P.id].doc))]_vars

\* the included classes of a class: the parents its loop processed, at any
\* level, whether or not merging their parameters threw
RECURSIVE includedClasses(_, _)
includedClasses(records, cid) ==
    UNION { {records[i].id} \cup includedClasses(records[i].classes, records[i].id) :
            i \in { j \in 1..Len(records) :
                      records[j].error = NoErr \/ records[j].error.classId = cid } }

\* C9: the fingerprint of a resolved class embeds the fingerprint of every
\* parent processed in the parent loop: when the modification time of a
\* class that C includes, directly or transitively, changes, C's fingerprint
\* after invalidateModified and re-resolution differs from the previous one.
C9_FingerprintEmbedsAncestors ==
    [][FileChanging =>
          \A name \in Requested :
            LET id == IdOf(name)
            IN ( /\ id \in DOMAIN cache
                 /\ modifiedClasses(cache, files) = {}
                 /\ \E a \in includedClasses(cache[id].classes, id) :
                       /\ files[a].exists /\ files'[a].exists
                       /\ files'[a].mtime # files[a].mtime
                 /\ passAfter(name, files').err = NoErr )
               => passAfter(name, files').st.cache[id].fingerprint
                     # cache[id].fingerprint]_vars

\* C9 for changes that move the modification time to another second: the
\* fingerprint still misses a parent whose parameters could not be merged
C9_IncludedChangeAfterASecond ==
    [][FileChanging =>
          \A name \in Requested :
            LET id == IdOf(name)
            IN ( /\ id \in DOMAIN cache
                 /\ modifiedClasses(cache, files) = {}
                 /\ \E a \in includedClasses(cache[id].classes, id) :
                       /\ files[a].exists /\ files'[a].exists
                       /\ DateString(files'[a].mtime) # DateString(files[a].mtime)
                 /\ passAfter(name, files').err = NoErr )
               => passAfter(name, files').st.cache[id].fingerprint
                     # cache[id].fingerprint]_vars

\* what does hold: a change that moves the modification time of a parent
\* merged without error, at any level, to another second changes the
\* fingerprint
C9_MergedChangeAfterASecond ==
    [][FileChanging =>
          \A name \in Requested :
            LET id == IdOf(name)
            IN ( /\ id \in DOMAIN cache
                 /\ modifiedClasses(cache, files) = {}
                 /\ \E a \in mergedAncestors(cache[id].classes) :
                       /\ files[a].exists /\ files'[a].exists
                       /\ DateString(files'[a].mtime) # DateString(files[a].mtime)
                 /\ passAfter(name, files').err = NoErr )
               => passAfter(name, files').st.cache[id].fingerprint
                     # cache[id].fingerprint]_vars

----------------------------------------------------------------------------
(* Tolerance of failing parents, checked under Spec *)

\* the declared parents of a document that fail to resolve at the given
\* depth, the Resolver being in state st
failingParents(doc, depth, st) ==
    { doc.classes.names[i] : i \in
        { j \in 1..Len(doc.classes.names) :
            resolve(classesDir, doc.classes.names[j], depth, st).err # NoErr } }

\* the document with the parents of the set F taken off its `classes`
withoutParents(doc, F) ==
    [doc EXCEPT !.classes.names = SelectSeq(@, LAMBDA n : n \notin F)]

\* the dependency records of the parents outside F
recordsWithout(records, F) == SelectSeq(records, LAMBDA rec : rec.name \notin F)

\* c is the class c2 but for the dependency records of the parents in F,
\* which carry an error and nothing else
sameButFailed(c, c2, F) ==
    /\ c.params = c2.params
    /\ c.applications = c2.applications
    /\ c.fingerprint = c2.fingerprint
    /\ c.dependents = c2.dependents
    /\ recordsWithout(c.classes, F) = c2.classes
    /\ \A n \in F :
          \E i \in 1..Len(c.classes) :
             /\ c.classes[i].name = n
             /\ c.classes[i].error # NoErr
             /\ c.classes[i].classes = <<>>
             /\ \A j \in 1..Len(c.classes) : c.classes[j].name = n => j = i

\* resolving the class `name` at `depth` from the state st, with its
\* document as it is and with the failing parents F taken off: the outcome
\* is the same, the class returned is the same but for the records of F, and
\* with no parent left the tree is the class's own parameters
toleratesFailures(name, depth, st, doc, F) ==
    LET id == IdOf(name)
        r  == resolve(classesDir, name, depth, st)
        r2 == resolveFile(classesDir, name, depth, st, st.fs[id], withoutParents(doc, F))
    IN /\ r.err = r2.err
       /\ r.st.dependencyTree = r2.st.dependencyTree
       /\ DOMAIN r.st.cache = DOMAIN r2.st.cache
       /\ \A k \in DOMAIN r.st.cache \ {id} : r.st.cache[k] = r2.st.cache[k]
       /\ r.err = NoErr =>
             /\ id \in DOMAIN r.st.cache
             /\ sameButFailed(r.st.cache[id], r2.st.cache[id], F)
             /\ ( /\ withoutParents(doc, F).classes.names = <<>>
                  /\ doc.parameters.present )
                => r.st.cache[id].params =
                      mergeParams(EmptyParams,
                          parseTokenParams(doc.parameters.tok, name, "CLASS")).p

\* C8: a declared parent that fails to resolve is recorded as the error of
\* its dependency record only: the other parents are resolved and merged in
\* order, the own parameters are merged, the class is returned and cached as
\* it would be without that parent, which contributes nothing; a class whose
\* every parent failed resolves with exactly its own parameters.  (Checked
\* for top-level requests and for includes at the depth limit, where every
\* parent fails.)
C8_FailedParentsContributeNothing ==
    \A name \in Requested : \A depth \in {0, depthLimit} :
        ( /\ IdOf(name) \notin DOMAIN cache
          /\ files[IdOf(name)].exists
          /\ DocOf(IdOf(name)).state = "ok" )
        => toleratesFailures(name, depth, State, DocOf(IdOf(name)),
              failingParents(DocOf(IdOf(name)), depth + 1, State))

\* top was returned with its parent mid merged while its parent gone was
\* not found
C8_ReturnedDespiteMissingParent ==
    /\ Returned
    /\ ret.id = IdOf("top")
    /\ \E i, j \in 1..Len(cache[ret.id].classes) :
          /\ cache[ret.id].classes[i].name = "mid"
          /\ cache[ret.id].classes[i].error = NoErr
          /\ cache[ret.id].classes[j].name = "gone"
          /\ cache[ret.id].classes[j].error.message = FileNotFound

----------------------------------------------------------------------------
(* Sequences under mergeParams, checked under SpecMerge *)

\* the last merge was dispatched to the SEQUENCE branch
MergedSequences ==
    mCount > 0 /\ mBefore.type = "SEQUENCE" /\ mSource.type = "SEQUENCE"

\* the elements of before followed by clones of the elements of source
concatenated(before, source) ==
    before.seq \o [i \in 1..Len(source.seq) |-> clone(source.seq[i])]

\* C11: mergeParams with both parameters of type SEQUENCE yields a target
\* sequence whose length is the sum of the two lengths: the target's previous
\* elements in their order, then clones of the source's elements in theirs.
C11_SequencesConcatenate ==
    MergedSequences =>
        /\ mErr = NoError
        /\ Len(mTarget.seq) = Len(mBefore.seq) + Len(mSource.seq)
        /\ mTarget.seq = concatenated(mBefore, mSource)

\* what does hold: a target whose value is an Array receives the elements
C11_ArraysConcatenate ==
    (MergedSequences /\ mBefore.kind = "array") =>
        /\ mErr = NoError
        /\ mTarget.kind = "array"
        /\ mTarget.seq = concatenated(mBefore, mSource)

----------------------------------------------------------------------------
(* The cached parent under merges into its children, checked under Spec *)

\* mid is cached, was merged into top and into bad, and a resolution returned
MergedIntoChildren ==
    /\ Returned
    /\ IdOf("mid") \in DOMAIN cache
    /\ IdOf("base") \in DOMAIN cache
    /\ \E i \in 1..Len(cache[IdOf("mid")].dependents) :
           cache[IdOf("mid")].dependents[i].id = IdOf("top")
    /\ \E i \in 1..Len(cache[IdOf("mid")].dependents) :
           cache[IdOf("mid")].dependents[i].id = IdOf("bad")

\* C12: mergeParams never mutates its source: a class that stays cached over
\* a step (a resolution merging it into a child, or any other call) keeps its
\* parameter tree, the source records of every leaf and their merge types
\* exactly as they were when it was cached.
C12_CachedParamsNeverChange ==
    [][\A id \in DOMAIN cache \cap DOMAIN cache' :
          cache'[id].params = cache[id].params]_vars

C12_ParentMergedIntoChildren == MergedIntoChildren

----------------------------------------------------------------------------
(* Nodes and interpolation, checked under SpecNode *)

ResolvedNode == ret.op = "resolveNode" /\ ret.error = NoErr
NodeOf(id) == CHOOSE n \in NodeNames : NodeIdOf(n) = id

\* a resolveNode call returned a class whose tree interpolation changed
Interpolated ==
    ResolvedNode /\ returned # <<>> /\ returned[1].params # cache[ret.id].params

RECURSIVE noRefs(_)
\* `ref` is null on every parameter of the tree
noRefs(p) ==
    /\ p.ref = <<>>
    /\ \A i \in 1..Len(p.seq) : noRefs(p.seq[i])
    /\ \A i \in 1..Len(p.map) : noRefs(p.map[i].val)

\* C14: interpolateClass does not mutate its input: after a resolveNode call,
\* with or without interpolation and however often repeated, the cache is
\* what resolving without interpolation leaves, the cached node holds the raw
\* tree with `ref` null on every leaf, and the class returned shares every
\* field with the cached one but params, which is the cached tree or the
\* expansion of a clone of it.
C14_InterpolationLeavesCacheRaw ==
    [][(ret'.op = "resolveNode" /\ ret'.error = NoErr) =>
          /\ cache' = resolve(nodesDir, NodeOf(ret'.id), 0, State).st.cache
          /\ \A id \in DOMAIN cache' : noRefs(cache'[id].params)
          /\ returned' # <<>>
          /\ [returned'[1] EXCEPT !.params = cache'[ret'.id].params] = cache'[ret'.id]
          /\ returned'[1].params \in
                { cache'[ret'.id].params,
                  parseInterpolation(clone(cache'[ret'.id].params), <<>>).p }]_vars

C14_InterpolatedNodeReturned ==
    /\ Interpolated
    /\ \E id \in NodeIds \ {ret.id} : id \in DOMAIN cache
    /\ ~noRefs(returned[1].params)

\* C13: resolve is idempotent on a cache hit: a resolveClass or resolveNode
\* call for a cached id does not fail, leaves the cache (so the class, its
\* tree, source records and fingerprint) and the dependency graph as they
\* were, and resolveNode returns a class with the fingerprint of the cached
\* one (the cached class itself without interpolation).
C13_CacheHitIsIdempotent ==
    [][(ret'.op \in {"resolveClass", "resolveNode"} /\ ret'.id \in DOMAIN cache) =>
          /\ ret'.error = NoErr
          /\ cache' = cache
          /\ dependencyTree' = dependencyTree
          /\ ret'.op = "resolveNode" =>
                /\ returned' # <<>>
                /\ returned'[1].fingerprint = cache[ret'.id].fingerprint
                /\ \/ returned'[1] = cache[ret'.id]
                   \/ ~noRefs(returned'[1].params)]_vars

\* a node was returned from the cache, interpolated, after its file and the
\* file of the class it includes were saved again
C13_HitAfterFileChange ==
    /\ Interpolated
    /\ edits > 0
    /\ files[ret.id].mtime # cache[ret.id].modified
    /\ files[IdOf("base")].mtime # cache[IdOf("base")].modified

\* the parameter under the key of the root map of a tree
leaf(params, key) == params.map[IndexOfKey(params.map, key)].val

\* the keys under which the cached node holds a string of type VALUE
stringKeys(params) ==
    { params.map[i].key : i \in { j \in 1..Len(params.map) :
          params.map[j].val.type = "VALUE" /\ params.map[j].val.kind = "string" } }

\* the expressions of the string s whose target in the tree is a map or a
\* sequence
referencesIn(params, s) ==
    { m \in { matchesFrom(s, 1)[i] : i \in 1..Len(matchesFrom(s, 1)) } :
        LET t == walk(params, split(refKeyOf(m), ":"))
        IN t.found /\ t.p.kind \in {"object", "array"} }

\* C15: a scalar leaf with a `${path}` expression whose target is a map or a
\* sequence becomes a typed reference: the property prepared for it has the
\* type of a reference, not the scalar type, its value is the path, and the
\* target subtree is not inlined.
C15_ReferenceIsTyped ==
    Interpolated =>
        \A key \in stringKeys(cache[ret.id].params) :
           \A m \in referencesIn(cache[ret.id].params, leaf(cache[ret.id].params, key).str) :
              /\ prepareProp(leaf(returned[1].params, key)).type = "ref"
              /\ prepareProp(leaf(returned[1].params, key)).value
                    = Str("#param:" \o refKeyOf(m))
              /\ leaf(returned[1].params, key).kind = "string"

\* the same for a leaf whose whole string is the expression
C15_WholeStringReferenceIsTyped ==
    Interpolated =>
        \A key \in stringKeys(cache[ret.id].params) :
           \A m \in referencesIn(cache[ret.id].params, leaf(cache[ret.id].params, key).str) :
              leaf(cache[ret.id].params, key).str = m =>
                 /\ prepareProp(leaf(returned[1].params, key)).type = "ref"
                 /\ prepareProp(leaf(returned[1].params, key)).value
                       = Str("#param:" \o refKeyOf(m))
                 /\ leaf(returned[1].params, key).kind = "string"

\* the target of the expression m in the tree is a scalar: a string of type
\* VALUE
scalarTarget(params, m) ==
    LET t == walk(params, split(refKeyOf(m), ":"))
    IN t.found /\ t.p.type = "VALUE" /\ t.p.kind = "string"

RECURSIVE scalarTargets(_, _, _)
\* s has expressions, and they and those of their targets, n levels deep,
\* have scalar targets
scalarTargets(params, s, n) ==
    /\ n > 0
    /\ \A i \in 1..Len(matchesFrom(s, 1)) :
          LET m == matchesFrom(s, 1)[i]
          IN /\ scalarTarget(params, m)
             /\ \/ matchesFrom(walk(params, split(refKeyOf(m), ":")).p.str, 1) = <<>>
                \/ scalarTargets(params, walk(params, split(refKeyOf(m), ":")).p.str, n - 1)

RECURSIVE substituted(_, _)
\* s with every expression replaced by the text of its target, itself
\* substituted
substituted(params, s) ==
    IF matchesFrom(s, 1) = <<>> THEN s
    ELSE LET m == matchesFrom(s, 1)[1]
             i == indexOf(s, m, 1)
         IN SubSeq(s, 1, i - 1)
              \o substituted(params, walk(params, split(refKeyOf(m), ":")).p.str)
              \o substituted(params, SubSeq(s, i + Len(m), Len(s)))

\* the keys of the node's raw tree whose strings have expressions, all with
\* scalar targets
substitutedKeys(params) ==
    { key \in stringKeys(params) :
        /\ matchesFrom(leaf(params, key).str, 1) # <<>>
        /\ scalarTargets(params, leaf(params, key).str, MaxPasses) }

\* C16: a string leaf whose expressions have scalar targets holds, after
\* interpolation, its string with each expression replaced by the text of its
\* target (several expressions combine into one string); a leaf whose whole
\* string is one expression holds the target's scalar, of the target's type.
C16_ExpressionsReplacedByTargetText ==
    Interpolated =>
        \A key \in substitutedKeys(cache[ret.id].params) :
           /\ leaf(returned[1].params, key).type = "VALUE"
           /\ leaf(returned[1].params, key).kind = "string"
           /\ leaf(returned[1].params, key).str
                 = substituted(cache[ret.id].params, leaf(cache[ret.id].params, key).str)

\* the same for the leaves whose text, expanded, holds no "$"
C16_TextWithoutDollarReplaced ==
    Interpolated =>
        \A key \in substitutedKeys(cache[ret.id].params) :
           indexOf(substituted(cache[ret.id].params, leaf(cache[ret.id].params, key).str),
                   "$", 1) = 0 =>
              /\ leaf(returned[1].params, key).type = "VALUE"
              /\ leaf(returned[1].params, key).kind = "string"
              /\ leaf(returned[1].params, key).str
                    = substituted(cache[ret.id].params, leaf(cache[ret.id].params, key).str)

RECURSIVE expanded(_)
\* no parameter of the tree holds a string with a `${...}` expression
expanded(p) ==
    /\ p.kind = "string" => matchesFrom(p.str, 1) = <<>>
    /\ \A i \in 1..Len(p.seq) : expanded(p.seq[i])
    /\ \A i \in 1..Len(p.map) : expanded(p.map[i].val)

RECURSIVE expandedWhereTyped(_)
\* the same for the strings of type VALUE reached through maps of type MAP
\* and sequences of type SEQUENCE
expandedWhereTyped(p) ==
    CASE p.type = "MAP" /\ p.kind \in {"object", "array"} ->
            /\ \A i \in 1..Len(p.seq) : expandedWhereTyped(p.seq[i])
            /\ \A i \in 1..Len(p.map) : expandedWhereTyped(p.map[i].val)
      [] p.type = "SEQUENCE" /\ p.kind = "array" ->
            \A i \in 1..Len(p.seq) : expandedWhereTyped(p.seq[i])
      [] p.type = "VALUE" /\ p.kind = "string" -> matchesFrom(p.str, 1) = <<>>
      [] OTHER -> TRUE

\* C17: interpolation of a tree without reference cycles ends in a fixpoint
\* over the whole tree: in the tree returned no leaf holding a string still
\* has a `${...}` expression, whatever the order of the leaves.
C17_NoExpressionLeft ==
    (ResolvedNode /\ returned # <<>> /\ ~expanded(cache[ret.id].params)) =>
        \/ returned[1].params = cache[ret.id].params
        \/ expanded(returned[1].params)

\* the same for the leaves whose type agrees with their value
C17_NoExpressionLeftWhereTyped ==
    (ResolvedNode /\ returned # <<>> /\ ~expanded(cache[ret.id].params)) =>
        \/ returned[1].params = cache[ret.id].params
        \/ expandedWhereTyped(returned[1].params)

----------------------------------------------------------------------------
(* The watch debounce, checked under SpecWatch *)

\* nothing is running or pending: no callback queued, no timer armed, the
\* lock free
Quiescent ==
    pc = "idle" /\ notifications = 0 /\ timers = 0 /\ ~watchLock

\* C18: no file-change notification is lost by the watch debounce: a
\* notification that arrives while a rebuild runs or the lock is held is
\* followed by a rebuild that starts after it.  Hence, once nothing is
\* running or pending any more, the last rebuild has read every change.
C18_NoNotificationLost == Quiescent => built = edits

\* at most one rebuild at a time: a build is entered from the idle event loop
\* only, with the lock free
C18_OneRebuildAtATime ==
    [][builds' # builds => (pc = "idle" /\ ~watchLock /\ pc' = "loading")]_vars

----------------------------------------------------------------------------
(* Inventory.load, checked under SpecLoad *)

Loaded == ret.op = "load"

\* the document of the file cannot be resolved: it is empty
failing(id) == Content(files[id].doc).state # "ok"

\* the file id of a directory is indexed in entries: with its class when its
\* document resolves, with the error and no class when it does not
indexed(entries, id) ==
    \E i \in 1..Len(entries) :
       /\ entries[i].id = id
       /\ IF failing(id)
          THEN entries[i].class = <<>> /\ entries[i].error # NoErr
          ELSE entries[i].class # <<>> /\ entries[i].error = NoErr

\* load() returned, and every class and node of the directory is indexed
allIndexed ==
    /\ ret.error = NoErr
    /\ \A n \in LoadClasses : indexed(index.classes, IdOf(n))
    /\ \A n \in NodeNames : indexed(index.nodes, NodeIdOf(n))
    /\ \A n \in LoadClasses : ~failing(IdOf(n)) => IdOf(n) \in DOMAIN cache

\* C19: a failure resolving one class or node is surfaced as a failed result
\* for that id only (error recorded, class null): Inventory.load still
\* resolves and indexes every other class and node, also when the failing
\* document is the init class of a directory.
C19_LoadSurvivesFailures == Loaded => allIndexed

\* the same when the init class of the directory resolves
C19_LoadSurvivesFailuresButInit ==
    (Loaded /\ ~failing(IdOf("init"))) => allIndexed

----------------------------------------------------------------------------
(* The order of the parents, checked under SpecLoad *)

\* the names of the classes in the source records of a parameter, in order
classNames(p) == [k \in 1..Len(p.sources) |-> p.sources[k].className]

\* the parameter p holds a scalar under the key
providesScalar(p, key) ==
    /\ IndexOfKey(p.map, key) > 0
    /\ leaf(p, key).type = "VALUE"
    /\ leaf(p, key).kind = "string"

\* the source records the class's own document adds to the key
ownNames(rc, key) ==
    IF declaresScalar(Content(files[rc.id].doc).parameters.tok, key)
    THEN <<rc.name>> ELSE <<>>

\* the cached classes whose file is as it was resolved, with two parents
\* merged without error: <<class id, position of P1, position of P2>>
twoParents ==
    { t \in (DOMAIN cache) \X (1..2) \X (1..2) :
        /\ files[t[1]].exists /\ files[t[1]].mtime = cache[t[1]].modified
        /\ t[2] < t[3] /\ t[3] = Len(cache[t[1]].classes)
        /\ \A i \in {t[2], t[3]} :
              /\ cache[t[1]].classes[i].error = NoErr
              /\ cache[t[1]].classes[i].id \in DOMAIN cache }

\* C20: parents are merged in declaration order: for a class with parents
\* [P1, P2] that both resolve and a scalar key both provide, the accumulator
\* holds P2's value before the class's own parameters are applied (so the
\* class has it unless it declares the key itself), and in the sources of
\* that leaf P1's records come first, then P2's, the last of them marked
\* REPLACED, then the class's own.
C20_ParentsMergedInDeclarationOrder ==
    \A t \in twoParents :
       LET rc == cache[t[1]]
           p1 == cache[rc.classes[t[2]].id].params
           p2 == cache[rc.classes[t[3]].id].params
       IN \A key \in {"q", "i", "k"} :
             (providesScalar(p1, key) /\ providesScalar(p2, key)) =>
                /\ classNames(leaf(rc.params, key))
                      = classNames(leaf(p1, key)) \o classNames(leaf(p2, key))
                           \o ownNames(rc, key)
                /\ leaf(rc.params, key).sources[Len(leaf(p1, key).sources)
                                                  + Len(leaf(p2, key).sources)].mergeType
                      = "REPLACED"
                /\ ownNames(rc, key) = <<>> =>
                      leaf(rc.params, key).str = leaf(p2, key).str

\* web was resolved with the parents [base, init], which both provide q
C20_TwoParentsProvideKey ==
    /\ Loaded
    /\ \E t \in twoParents :
          /\ t[1] = NodeIdOf("web")
          /\ cache[t[1]].classes[1].id = IdOf("base")
          /\ leaf(cache[t[1]].params, "q").str = "9"

----------------------------------------------------------------------------
(* The sources list under mergeParams, checked under SpecMerge *)

\* the merge outcome the last record is to carry
outcomeOf(before, source) ==
    IF before.type = source.type /\ source.type \in {"MAP", "SEQUENCE"}
    THEN "MERGED" ELSE "REPLACED"

\* target.sources is before.sources followed by the records of source in
\* their order, the last of them carrying the merge outcome
sourcesAppended(target, before, source) ==
    /\ Len(target.sources) = Len(before.sources) + Len(source.sources)
    /\ \A i \in 1..Len(before.sources) : target.sources[i] = before.sources[i]
    /\ \A j \in 1..Len(source.sources) :
          target.sources[Len(before.sources) + j] =
             IF j < Len(source.sources) THEN source.sources[j]
             ELSE [className |-> source.sources[j].className,
                   classType |-> source.sources[j].classType,
                   type      |-> source.sources[j].type,
                   mergeType |-> outcomeOf(before, source),
                   value     |-> source.sources[j].value,
                   comment   |-> source.sources[j].comment]

\* C21: after mergeParams(target, source) the sources list of target is its
\* previous list followed by the records of source in their order; every
\* record is unchanged but the final one, which is marked MERGED when both
\* parameters are MAP or both SEQUENCE and REPLACED otherwise; no record
\* already in target is modified or removed.
C21_SourcesAppended ==
    mCount > 0 => sourcesAppended(mTarget, mBefore, mSource)

\* the same for the calls that return
C21_SourcesAppendedWhenReturned ==
    (mCount > 0 /\ mErr = NoError) => sourcesAppended(mTarget, mBefore, mSource)

\* the same, for the calls that throw: no record of target is modified or
\* removed
C21_NoRecordModified ==
    mCount > 0 =>
        /\ Len(mTarget.sources) >= Len(mBefore.sources)
        /\ \A i \in 1..Len(mBefore.sources) : mTarget.sources[i] = mBefore.sources[i]

----------------------------------------------------------------------------
(* Diamond inheritance, checked under SpecGraph *)

RECURSIVE pathsIn(_, _)
\* the number of include paths that lead from the dependency records to the
\* class named a, through parents recorded without error
pathsIn(records, a) ==
    IF Len(records) = 0 THEN 0
    ELSE (IF Head(records).error # NoErr THEN 0
          ELSE (IF Head(records).name = a THEN 1 ELSE 0)
               + pathsIn(Head(records).classes, a))
         + pathsIn(Tail(records), a)

\* the source records the class named a contributed to the parameter p
contributions(p, a) == SelectSeq(p.sources, LAMBDA r : r.className = a)

\* the elements of the sequence p that hold the string str declared by a
elementsOf(p, a, str) ==
    SelectSeq(p.seq, LAMBDA x : x.str = str /\ x.sources[1].className = a)

\* <<C, A>>: the cached class C has two different parents, recorded without
\* error, that both include the class named A
diamonds ==
    { d \in (DOMAIN cache) \X GraphClasses :
        \E i, j \in 1..Len(cache[d[1]].classes) :
           /\ i < j
           /\ cache[d[1]].classes[i].name # cache[d[1]].classes[j].name
           /\ \A k \in {i, j} :
                 /\ cache[d[1]].classes[k].error = NoErr
                 /\ pathsIn(cache[d[1]].classes[k].classes, d[2]) > 0 }

\* the entries of the root map the class named a declares
declaredEntries(a) ==
    IF DocOf(IdOf(a)).parameters.present /\ DocOf(IdOf(a)).parameters.type = "MAP"
    THEN DocOf(IdOf(a)).parameters.tok.map ELSE <<>>

----------------------------------------------------------------------------
(* The depth guard and the cache, checked under SpecGraph *)

\* the dependency records with a depth error that the call just made left in
\* the classes it cached: <<class id, position>>
depthErrors ==
    { e \in (DOMAIN cache') \X (1..3) :
        /\ e[1] \notin DOMAIN cache \/ cache'[e[1]] # cache[e[1]]
        /\ e[2] <= Len(cache'[e[1]].classes)
        /\ cache'[e[1]].classes[e[2]].error.message = DepthExceeded }

\* C23: the cache is consulted before the depth guard: a class that is
\* cached when it is requested is returned without a depth error at whatever
\* include depth, so no call records a depth error for a parent that was in
\* the cache when the call began.
C23_CachedClassNeverDepthError ==
    [][ \A e \in depthErrors : cache'[e[1]].classes[e[2]].id \notin DOMAIN cache ]_vars

\* the same for the requests within the depth limit: a class cached when the
\* call begins and requested at a depth up to depthLimit is returned as
\* cached, the Resolver's state unchanged
C23_CachedClassReturnedWithinLimit ==
    \A name \in GraphClasses, depth \in 0..depthLimit :
       IdOf(name) \in DOMAIN cache =>
          /\ resolveClass(name, depth, State).err = NoErr
          /\ resolveClass(name, depth, State).st = State

----------------------------------------------------------------------------
(* The dependency graph and the dependents, checked under SpecGraph *)

\* <<C, i>>: the cached class C and the position of a declared parent that
\* its dependency records carry without error
includes ==
    { e \in (DOMAIN cache) \X (1..3) :
        /\ e[2] <= Len(cache[e[1]].classes)
        /\ cache[e[1]].classes[e[2]].error = NoErr }

\* the ids the dependency graph lists as depending on the class id
dependingOn(id) == IF id \in DOMAIN dependencyTree THEN dependencyTree[id] ELSE <<>>

\* the dependency graph lists c exactly once among the ids depending on p
listedOnce(p, c) == Len(SelectSeq(dependingOn(p), LAMBDA x : x = c)) = 1

\* the cached entry of p lists c among its dependents
isDependent(p, c) ==
    /\ p \in DOMAIN cache
    /\ \E k \in 1..Len(cache[p].dependents) : cache[p].dependents[k].id = c

\* C24: for every cached class C and every declared parent P of C recorded
\* without error, the dependency graph lists C exactly once among the ids
\* depending on P and the resolved entry of P lists C among its dependents.
C24_EdgesAndDependents ==
    \A e \in includes :
       /\ listedOnce(cache[e[1]].classes[e[2]].id, e[1])
       /\ isDependent(cache[e[1]].classes[e[2]].id, e[1])

\* the part of C24 about the dependency graph: C is listed exactly once
C24_EdgeListedOnce ==
    \A e \in includes : listedOnce(cache[e[1]].classes[e[2]].id, e[1])

\* the part of C24 about invalidate: it removes no edge (nor does any other
\* operation: the dependency graph only grows)
C24_InvalidateKeepsEdges ==
    [][ \A p \in DOMAIN dependencyTree :
           /\ p \in DOMAIN dependencyTree'
           /\ \A i \in 1..Len(dependencyTree[p]) :
                 \E k \in 1..Len(dependencyTree'[p]) :
                    dependencyTree'[p][k] = dependencyTree[p][i] ]_vars

\* the names the document of the class named n lists under `classes`
declaredParents(n) ==
    { DocOf(IdOf(n)).classes.names[i] : i \in 1..Len(DocOf(IdOf(n)).classes.names) }

RECURSIVE declaredAncestors(_, _)
\* the classes reached from the set S of names in at most k includes
declaredAncestors(S, k) ==
    IF k = 0 THEN S
    ELSE declaredAncestors(S \cup UNION { declaredParents(n) : n \in S }, k - 1)

\* the class named n includes itself, directly or through its parents
includesItself(n) ==
    n \in declaredAncestors(declaredParents(n), Cardinality(GraphClasses))

\* the part of C24 about the dependents, for the classes that do not
\* include themselves, directly or through their parents
C24_DependentsOutsideCycles ==
    \A e \in includes :
       ~includesItself(cache[e[1]].name) =>
          isDependent(cache[e[1]].classes[e[2]].id, e[1])

----------------------------------------------------------------------------
(* The applications of a resolved class, checked under SpecGraph *)

\* the cached classes whose file is as it was when they were resolved
asResolved ==
    { id \in DOMAIN cache : files[id].exists /\ files[id].mtime = cache[id].modified }

\* the source list the class rc holds for the application a
sourcesOfApp(rc, a) ==
    IF IndexOfKey(rc.applications, a) = 0 THEN <<>>
    ELSE rc.applications[IndexOfKey(rc.applications, a)].sources

\* the applications the class rc holds
appsOf(rc) == { rc.applications[i].key : i \in 1..Len(rc.applications) }

\* how often the document of the class id declares the application a
ownDeclarations(id, a) ==
    Len(SelectSeq(DocOf(id).applications.names, LAMBDA x : x = a))

\* the dependency records of the parents that resolveClass returned: those
\* without error and those whose error was raised by the merge in the frame
\* of the class itself
resolvedParents(rc) ==
    { i \in 1..Len(rc.classes) :
        rc.classes[i].error = NoErr \/ rc.classes[i].error.classId = rc.id }

RECURSIVE aggregated(_, _, _)
\* the number of source entries the resolved parents of rc hold for a, from
\* the record i on
aggregated(rc, a, i) ==
    IF i > Len(rc.classes) THEN 0
    ELSE (IF i \in resolvedParents(rc)
          THEN Len(sourcesOfApp(cache[rc.classes[i].id], a)) ELSE 0)
         + aggregated(rc, a, i + 1)

\* the applications of the cached class id are the aggregate of its own and
\* of its parents'
applicationsAggregated(id) ==
    LET rc == cache[id]
    IN /\ \A i \in 1..Len(DocOf(id).applications.names) :
             DocOf(id).applications.names[i] \in appsOf(rc)
       /\ \A i \in resolvedParents(rc) :
             /\ rc.classes[i].id \in DOMAIN cache
             /\ appsOf(cache[rc.classes[i].id]) \subseteq appsOf(rc)
       /\ \A a \in appsOf(rc) :
             /\ Len(sourcesOfApp(rc, a)) = ownDeclarations(id, a) + aggregated(rc, a, 1)
             /\ ownDeclarations(id, a) > 0 =>
                   sourcesOfApp(rc, a)[Len(sourcesOfApp(rc, a))] =
                      [className |-> rc.name, classType |-> rc.type]

\* C25: the applications map of a resolved class contains every application
\* the class declares or one of its resolved parents holds; the source list
\* of an application holds one entry per declaration of the class and one
\* per entry of each resolved parent, the class's own entry last; and the
\* applications map of an entry that stays in the cache is never modified.
C25_ApplicationsAggregated ==
    [][ /\ \A id \in DOMAIN cache' :
             (files'[id].exists /\ files'[id].mtime = cache'[id].modified)
                => applicationsAggregated(id)'
        /\ \A id \in DOMAIN cache \cap DOMAIN cache' :
             cache'[id].applications = cache[id].applications ]_vars

\* dia is cached: it declares a1 itself and its parents mid and side hold a1
\* from base (twice) and side; side also brings a3
C25_ApplicationsOfDiamond ==
    /\ IdOf("dia") \in asResolved
    /\ Len(sourcesOfApp(cache[IdOf("dia")], "a1")) = 4
    /\ Len(sourcesOfApp(cache[IdOf("dia")], "a3")) = 1
    /\ Len(sourcesOfApp(cache[IdOf("base")], "a1")) = 1

RECURSIVE declarationsOf(_, _)
\* the number of declarations of the application a in the documents of the
\* classes named in the set S
declarationsOf(S, a) ==
    IF S = {} THEN 0
    ELSE LET n == CHOOSE x \in S : TRUE
         IN ownDeclarations(IdOf(n), a) + declarationsOf(S \ {n}, a)

\* C25 as stated: the source list of an application holds one entry per
\* contributing declaration, whatever the number of include paths that lead
\* to the declaring class.
C25_OneEntryPerDeclaration ==
    \A id \in asResolved : \A a \in appsOf(cache[id]) :
       Len(sourcesOfApp(cache[id], a)) =
          declarationsOf({ sourcesOfApp(cache[id], a)[i].className :
                              i \in 1..Len(sourcesOfApp(cache[id], a)) }, a)

----------------------------------------------------------------------------
(* Parents that are found, parse and are structurally valid *)

\* the document behind the class id is found, parses to a root map, and its
\* `classes`, `applications` and `parameters` have the types resolve expects
validDocument(id) ==
    /\ id \in DOMAIN files
    /\ files[id].exists
    /\ DocOf(id).state = "ok"
    /\ DocOf(id).classes.present => DocOf(id).classes.type = "SEQUENCE"
    /\ DocOf(id).applications.present => DocOf(id).applications.type = "SEQUENCE"
    /\ DocOf(id).parameters.present => DocOf(id).parameters.type = "MAP"

\* <<C, i>>: the cached class C and the position of the dependency record of
\* a valid parent that was requested within the depth limit
validParents ==
    { e \in (DOMAIN cache) \X (1..3) :
        /\ e[2] <= Len(cache[e[1]].classes)
        /\ validDocument(cache[e[1]].classes[e[2]].id)
        /\ cache[e[1]].classes[e[2]].error.message # DepthExceeded }

\* the parent holds no parameter: it declares none and inherits none
holdsNoParameters(id) ==
    id \in DOMAIN cache /\ Len(cache[id].params.sources) = 0

\* the record of the parent is without error, the parent's applications are
\* among the class's and its fingerprint is part of the class's
mergedWithoutError(rc, i) ==
    /\ rc.classes[i].error = NoErr
    /\ rc.classes[i].id \in DOMAIN cache
    /\ appsOf(cache[rc.classes[i].id]) \subseteq appsOf(rc)
    /\ \E k \in 1..Len(rc.fingerprint.parents) :
          rc.fingerprint.parents[k] = cache[rc.classes[i].id].fingerprint

\* C26: a parent whose document is found, parses and is structurally valid
\* is never recorded with an error on the including class, also when it holds
\* no parameters at all: it is merged without error, its applications are
\* aggregated and its fingerprint is added to the hash of the class.
C26_ValidParentMergedWithoutError ==
    \A e \in validParents : mergedWithoutError(cache[e[1]], e[2])

\* the same for the valid parents that hold a parameter, outside include
\* cycles (where the cached entry of the parent is not the one merged)
C26_ParentWithParametersMerged ==
    \A e \in validParents :
       (~holdsNoParameters(cache[e[1]].classes[e[2]].id)
           /\ ~includesItself(cache[e[1]].name))
          => mergedWithoutError(cache[e[1]], e[2])

\* the applications of a valid parent without parameters are aggregated
\* although its record carries the error
C26_ApplicationsOfParentWithoutParameters ==
    \A e \in validParents :
       holdsNoParameters(cache[e[1]].classes[e[2]].id) =>
          /\ cache[e[1]].classes[e[2]].error = Err(TypeErrorLastSource, e[1])
          /\ appsOf(cache[cache[e[1]].classes[e[2]].id]) \subseteq appsOf(cache[e[1]])

----------------------------------------------------------------------------
(* Cache closure, checked under SpecClosure *)

\* C27: in every state between top-level calls of resolveClass, resolveNode,
\* invalidate and invalidateModified, for each cached class C and each
\* declared parent of C whose dependency record carries no error, the
\* parent's id is in the cache as well.
C27_CacheClosed ==
    \A e \in includes : cache[e[1]].classes[e[2]].id \in DOMAIN cache

\* an invalidation has just removed a parent together with the node and the
\* class that had merged it
C27_ParentRemovedWithChildren ==
    /\ ret.op \in {"invalidate", "invalidateModified"}
    /\ {IdOf("base"), IdOf("mid"), NodeIdOf("web")} \subseteq ret.removed
    /\ IdOf("ping") \in DOMAIN cache

----------------------------------------------------------------------------
(* What a resolve call that raises leaves behind, checked under SpecGraph *)

\* the ids the dependency graph t records the class id x as depending on
edgesNaming(t, x) ==
    { p \in DOMAIN t : \E i \in 1..Len(t[p]) : t[p][i] = x }

\* the cached classes of c whose dependents name the class id x
dependentsNaming(c, x) ==
    { p \in DOMAIN c : \E i \in 1..Len(c[p].dependents) : c[p].dependents[i].id = x }

\* C28: a resolve call that raises for class X leaves no trace of X in the
\* shared state: X is not cached, and the call adds no dependency-graph edge
\* and no dependents entry of a cached class that names X, also when the
\* failure is detected after the parents of X were processed.
C28_FailedResolveLeavesNoTrace ==
    [][ (ret'.op = "resolveClass" /\ ret'.error # NoErr) =>
           /\ ret'.id \notin DOMAIN cache'
           /\ edgesNaming(dependencyTree', ret'.id) \subseteq edgesNaming(dependencyTree, ret'.id)
           /\ dependentsNaming(cache', ret'.id) \subseteq dependentsNaming(cache, ret'.id) ]_vars

\* the part of C28 about the cache: the class a call raised for is not cached
C28_FailedClassNotCached ==
    (ret.op = "resolveClass" /\ ret.error # NoErr) => ret.id \notin DOMAIN cache

----------------------------------------------------------------------------
(* Termination of the calls, checked under SpecCall *)

\* a top-level call of resolve is in progress, not yet interpolating
Resolving ==
    frames # <<>> /\ frames[1].op = "resolve" /\ frames[1].phase # "interpolate"

\* a top-level call of invalidate is in progress
Invalidating == frames # <<>> /\ frames[1].op = "invalidate"

\* the activation on top can take its next step: the guards of the steps
canStep ==
    CASE top.op = "resolve" /\ top.phase = "enter" -> TRUE
      [] top.op = "resolve" /\ top.phase = "loop" ->
            \/ top.i > Len(top.names)
            \/ \E k \in 1..Len(top.rc.resolvedClasses) :
                  top.rc.resolvedClasses[k] = top.names[top.i]
            \/ Len(frames) < MaxStack
      [] top.op = "resolve" /\ top.phase = "interpolate" ->
            ~interpolateClass(cache[frameId(top)]).diverges
      [] top.op = "invalidate" /\ top.phase = "enter" -> TRUE
      [] top.op = "invalidate" /\ top.phase = "loop" ->
            \/ top.i > Len(top.names)
            \/ ~recurses(cache, top.names[top.i])
            \/ Len(frames) < MaxStack

\* the longest `classes` list among the documents
maxNames ==
    CHOOSE n \in 0..8 :
       /\ \A id \in DOMAIN files : Len(DocOf(id).classes.names) <= n
       /\ \E id \in DOMAIN files : Len(DocOf(id).classes.names) = n

RECURSIVE budget(_)
\* a bound of the steps an activation of resolve entered at depth d takes:
\* beyond the limit it raises at once, within it each of its turns may
\* enter an activation at depth d + 1
budget(d) ==
    IF d > depthLimit THEN 1
    ELSE maxNames * (budget(d + 1) + 1) + 3

\* the steps the activation frames[k] of resolve may still take itself and
\* through the activations it has yet to enter
resolveWork(k) ==
    CASE frames[k].phase = "enter" -> budget(frames[k].depth)
      [] frames[k].phase = "interpolate" -> 1
      [] frames[k].phase = "loop" ->
            (Len(frames[k].names) - frames[k].i + 1
                - (IF k < Len(frames) THEN 1 ELSE 0))
               * (budget(frames[k].depth + 1) + 1) + 2

\* the same for an activation of invalidate; an activation still to be
\* entered for a cached id is accounted for by that id (invalidateWork)
invalidateTurns(k) ==
    IF frames[k].phase = "enter" THEN Cardinality(DOMAIN files) + 2
    ELSE Len(frames[k].names) - frames[k].i + 2

RECURSIVE sumOver(_, _)
sumOver(Op(_), k) == IF k = 0 THEN 0 ELSE Op(k) + sumOver(Op, k - 1)

\* the cached ids that no activation is about to delete
cachedAside ==
    DOMAIN cache \ { frames[k].name : k \in { j \in 1..Len(frames) :
                                                frames[j].phase = "enter" } }

\* a natural number that every step of a call decreases
work ==
    IF frames = <<>> THEN 0
    ELSE IF frames[1].op = "resolve" THEN sumOver(resolveWork, Len(frames))
    ELSE sumOver(invalidateTurns, Len(frames))
            + (Cardinality(DOMAIN files) + 3) * Cardinality(cachedAside)

\* every step of the call in progress decreases the work left
workDecreases == (frames # <<>> /\ frames' # frames) => (work' < work /\ work' >= 0)

\* the activations of resolve are nested by depth, none beyond the first
\* depth over the limit, and an activation beyond the limit never reaches
\* the loop over `classes`
depthBounded ==
    \A k \in 1..Len(frames) :
       frames[k].op = "resolve" =>
          /\ frames[k].depth = k - 1
          /\ frames[k].depth <= depthLimit + 1
          /\ frames[k].phase = "loop" => frames[k].depth <= depthLimit

\* what the outermost activation of resolve leaves is what resolve computes
\* from the state it was entered in
resolveAsComputed ==
    (Len(frames) = 1 /\ top.op = "resolve" /\ top.phase # "interpolate"
        /\ frames' # frames /\ (frames' = <<>> \/ frames'[1].phase = "interpolate")) =>
       /\ cache' = resolve(top.prefix, top.name, 0, top.st0).st.cache
       /\ dependencyTree' = resolve(top.prefix, top.name, 0, top.st0).st.dependencyTree
       /\ frames' = <<>> => ret'.error = resolve(top.prefix, top.name, 0, top.st0).err

\* C29: resolveClass and resolveNode terminate for every set of documents:
\* a call in progress can always take its next step towards its end.
C29_CallsTerminate ==
    (frames # <<>> /\ frames[1].op = "resolve") => canStep

\* the part of C29 about the include recursion: it can always take its next
\* step, every step decreases the work left, the nesting is cut by the depth
\* limit, and the outermost activation leaves the cache and the outcome that
\* resolve computes; a call that returned a class has it in the cache under
\* its id, one entry per class id
C29_IncludeRecursionTerminates ==
    /\ [](Resolving => canStep)
    /\ [][Resolving => workDecreases]_vars
    /\ [](depthBounded /\ Len(frames) < MaxStack)
    /\ [][resolveAsComputed]_vars
    /\ []((frames = <<>> /\ ret.op \in {"resolveClass", "resolveNode"}
             /\ ret.error = NoErr) => ret.id \in DOMAIN cache)
    /\ [](\A id \in DOMAIN cache : cache[id].id = id)

\* every inner activation of invalidate was made on an id cached at that
\* time, which it deletes first; the ids of the activations differ, and the
\* nesting is bounded by the number of classes deleted so far
invalidateBounded ==
    Invalidating =>
       /\ \A k \in 2..Len(frames) :
             /\ frames[k].op = "invalidate"
             /\ frames[k].name \in DOMAIN frames[k].st0.cache
       /\ \A k \in 1..Len(frames) :
             frames[k].phase = "loop" => frames[k].name \notin DOMAIN cache
       /\ \A j, k \in 1..Len(frames) : frames[j].name = frames[k].name => j = k
       /\ Len(frames) - 1 <=
             Cardinality(DOMAIN frames[1].st0.cache \ DOMAIN cache)
       /\ Len(frames) - 1 <= Cardinality(DOMAIN frames[1].st0.cache)

\* what the outermost activation of invalidate leaves is what invalidate
\* computes from the cache it was entered with
invalidateAsComputed ==
    (Len(frames) = 1 /\ top.op = "invalidate" /\ frames' = <<>>) =>
       cache' = invalidate(top.st0.cache, dependencyTree, top.name)

\* C30: invalidate(X) terminates for every dependency graph, cycles among
\* them: every recursive call is made on an id that is cached and deletes it
\* first, so that the nesting of the calls is bounded by the number of cached
\* classes.
C30_InvalidateTerminates ==
    /\ Invalidating ~> (frames = <<>>)
    /\ [][Invalidating => workDecreases]_vars
    /\ [](invalidateBounded /\ Len(frames) < MaxStack)
    /\ [][invalidateAsComputed]_vars

\* invalidate runs on a cycle of the dependency graph: an inner activation
\* finds the id of the outermost one among its dependants
C30_InsideCycle ==
    /\ Invalidating
    /\ Len(frames) >= 2
    /\ top.phase = "loop"
    /\ \E i \in 1..Len(top.names) : top.names[i] = frames[1].name

====
